---- MODULE Spec2Model ----
(***************************************************************************)
(* Model of the OOH matching engine (core/ooh/analyzer.py, Analyzer) and   *)
(* of the panel it builds (core/ooh/panel.py, Panel).                      *)
(*                                                                         *)
(* Units.  Distances and radii are whole metres (the source uses km:       *)
(* 0.1 km = 100, 0.5 km = 500, 5.0 km = 5000, 0.01 km = 10).  All points   *)
(* lie on one meridian, where the haversine distance is the length of the  *)
(* arc between the two latitudes, so `latitude` is a position in metres.   *)
(* Prices are in units of half a rouble (a price is a float in the source; *)
(* the half is the case round() decides), rental coefficients are in units *)
(* of 1e-4 (the source rounds them to 4 decimals), tolerances are in       *)
(* percent, weights are in units of 1e-3.  A nullable value is <<>> (null) *)
(* or <<v>>.                                                               *)
(***************************************************************************)
EXTENDS Integers, Sequences, FiniteSets, TLC

None == <<>>
Some(v) == <<v>>
IsNull(x) == x = <<>>
Val(x) == x[1]

Abs(x) == IF x < 0 THEN -x ELSE x

Range(s) == {s[i] : i \in 1..Len(s)}

RECURSIVE SumSeq(_)
SumSeq(s) == IF s = <<>> THEN 0 ELSE Head(s) + SumSeq(Tail(s))

RECURSIVE Replicate(_, _)
Replicate(n, x) == IF n = 0 THEN <<>> ELSE <<x>> \o Replicate(n - 1, x)

(***************************************************************************)
(* core/ooh/schema.py                                                      *)
(***************************************************************************)
RADIUS_MAX_MF == 100
RADIUS_MAX_DEFAULT == 5000
RADIUS_MIN_DEFAULT == 0
RADIUS_STEP_DEFAULT == 500
REQUIRED_COUNT_MIN == 3
REQUIRED_COUNT_DEFAULT == 10
BASE_PRICE_TOLERANCE == 50
SIZE_TOLERANCE == 15

CMethod == [default |-> "default", operator_plus |-> "operator_plus"]

SMethod == [mean |-> "mean", weighted_mean |-> "weighted_mean",
            trimmed_mean |-> "trimmed_mean", median |-> "median"]

Formats == [MF |-> "MF", DIGITAL |-> "DIGITAL", NON_DIGITAL |-> "NON_DIGITAL"]

\* The columns of a processed template (Template.process_template), as far
\* as the engine reads them.
InputCols == {"advertiser", "operator", "format", "is_digital", "width", "height",
              "latitude", "base_price", "subject_code"}

\* OOH_SUBJECTS[subj_code].get(TOP_OPERATORS, []): the asset lists top
\* operators for some subjects and none for the others.
OOH_SUBJECTS(subj_code) ==
    IF subj_code = Some("RU-MOW") THEN {"O1", "O2"} ELSE {}

(***************************************************************************)
(* numpy.arange(start, stop, step): ceil((stop - start) / step) values.    *)
(***************************************************************************)
CeilDiv(a, b) == (a + b - 1) \div b

Arange(start, stop, step) ==
    [i \in 1..CeilDiv(stop - start, step) |-> start + (i - 1) * step]

\* Mutant: the stop value is one step too far, so 5.5 km is tried as well.
RAD_RANGE_too_far ==
    Arange(RADIUS_MIN_DEFAULT, RADIUS_MAX_DEFAULT + 2 * RADIUS_STEP_DEFAULT, RADIUS_STEP_DEFAULT)

\* Mutant: the radii are tried from the largest to the smallest.
RAD_RANGE_descending ==
    [i \in 1..11 |-> RADIUS_MAX_DEFAULT - (i - 1) * RADIUS_STEP_DEFAULT]

\* Mutant: the stop value is RADIUS_MAX_DEFAULT itself, so 5.0 km is not tried.
RAD_RANGE_without_endpoint ==
    Arange(RADIUS_MIN_DEFAULT, RADIUS_MAX_DEFAULT, RADIUS_STEP_DEFAULT)

RAD_RANGE ==
    Arange(RADIUS_MIN_DEFAULT, RADIUS_MAX_DEFAULT + RADIUS_STEP_DEFAULT, RADIUS_STEP_DEFAULT)

(***************************************************************************)
(* Analyzer._calc_dist, on one meridian.                                   *)
(***************************************************************************)
Haversine(lat_1, lat_2) == Abs(lat_2 - lat_1)

calc_dist(lat_1, db) ==
    [i \in 1..Len(db) |-> db[i] @@ ("distance" :> Haversine(lat_1, db[i].latitude))]

(***************************************************************************)
(* Analyzer._calc_weights.  exp(-x) is computed in fixed point, x in       *)
(* tenths: ExpNeg(0) = 1000 and each further tenth multiplies by           *)
(* exp(-0.1) ~ 0.905, rounding down; from 51 tenths on the result is 0.     *)
(***************************************************************************)
\* Below zero each tenth multiplies by exp(0.1) ~ 1.105.
RECURSIVE ExpNeg(_)
ExpNeg(t) ==
    IF t = 0 THEN 1000
    ELSE IF t > 50 THEN 0
    ELSE IF t > 0 THEN (ExpNeg(t - 1) * 905) \div 1000
    ELSE (ExpNeg(t + 1) * 1105) \div 1000

\* Mutant: the minus sign of the decay is missing.
Weight_without_minus(distance, radius) ==
    IF 0 <= radius /\ radius <= 100
    THEN 1000
    ELSE LET w == ExpNeg(-((10 * distance) \div radius))
         IN  IF w < 0 THEN 0 ELSE w

\* Mutant: the weight falls linearly, to 0 at the radius.
Weight_linear(distance, radius) ==
    IF 0 <= radius /\ radius <= 100
    THEN 1000
    ELSE LET w == 1000 - (1000 * distance) \div radius
         IN  IF w < 0 THEN 0 ELSE w

Weight(distance, radius) ==
    IF 0 <= radius /\ radius <= 100
    THEN 1000
    ELSE LET w == ExpNeg((10 * distance) \div radius)
         IN  IF w < 0 THEN 0 ELSE w

calc_weights(db, radius) ==
    [i \in 1..Len(db) |-> db[i] @@ ("weight" :> Weight(db[i].distance, radius))]

(***************************************************************************)
(* Analyzer._build_panel: one Construction per candidate row.  `id` is the *)
(* position of the row in the pool the analyzer was constructed with; it   *)
(* and `distance` are kept to tell the candidates apart.                   *)
(***************************************************************************)
PConstruction(row) ==
    [id |-> row.id, advertiser |-> row.advertiser, operator |-> row.operator,
     format |-> row.format, width |-> row.width, height |-> row.height,
     latitude |-> row.latitude, base_price |-> Val(row.base_price),
     distance |-> row.distance, weight |-> row.weight]

build_panel(db_cand) ==
    IF db_cand = <<>> THEN <<>>
    ELSE [i \in 1..Len(db_cand) |-> PConstruction(db_cand[i])]

(***************************************************************************)
(* The filters of the Analyzer.  A polars filter keeps the rows whose      *)
(* predicate is true, so a null operand drops the row.                     *)
(***************************************************************************)
filter_fmt_mf(db) == SelectSeq(db, LAMBDA r : r.format = Formats.MF)

\* Mutant: the pool is never restricted by subject.
filter_subj_skipped(c_meth, db, row) == db

filter_subj(c_meth, db, row) ==
    IF c_meth = CMethod.operator_plus
    THEN SelectSeq(db, LAMBDA r : /\ ~IsNull(r.subject_code)
                                  /\ ~IsNull(row.subject_code)
                                  /\ r.subject_code = row.subject_code)
    ELSE db

\* Mutant: only the rows of the ring between the previous radius and this
\* one are kept.
filter_dist_price_ring(db, radius, price_tol_abs, base_price) ==
    SelectSeq(db, LAMBDA r : /\ r.distance <= radius
                             /\ r.distance > radius - RADIUS_STEP_DEFAULT
                             /\ ~IsNull(r.base_price)
                             /\ 100 * Abs(Val(r.base_price) - base_price) <= price_tol_abs)

\* Mutant: the price tolerance is not applied.
filter_dist_price_any_price(db, radius, price_tol_abs, base_price) ==
    SelectSeq(db, LAMBDA r : r.distance <= radius /\ ~IsNull(r.base_price))

\* price_tol_abs is BASE_PRICE_TOLERANCE percent of |df_price|; both sides
\* of the comparison are scaled by 100.
filter_dist_price(db, radius, price_tol_abs, base_price) ==
    SelectSeq(db, LAMBDA r : /\ r.distance <= radius
                             /\ ~IsNull(r.base_price)
                             /\ 100 * Abs(Val(r.base_price) - base_price) <= price_tol_abs)

\* Mutant: the rows of another format than the row's are dropped as well.
filter_digital_and_format(db, row) ==
    SelectSeq(db, LAMBDA r : r.is_digital = row.is_digital /\ r.format = row.format)

filter_digital(db, row) == SelectSeq(db, LAMBDA r : r.is_digital = row.is_digital)

\* Mutant: a row with one dimension is treated like a row without a size.
filter_size_one_dimension_passes(db, row) ==
    IF ~IsNull(row.width) /\ ~IsNull(row.height)
    THEN SelectSeq(db, LAMBDA r :
             /\ ~IsNull(r.width)
             /\ ~IsNull(r.height)
             /\ 100 * Abs(Val(r.width) - Val(row.width)) <= Val(row.width) * SIZE_TOLERANCE
             /\ 100 * Abs(Val(r.height) - Val(row.height)) <= Val(row.height) * SIZE_TOLERANCE)
    ELSE db

filter_size(db, row) ==
    IF ~IsNull(row.width) /\ ~IsNull(row.height)
    THEN LET w_tol == Val(row.width) * SIZE_TOLERANCE
             h_tol == Val(row.height) * SIZE_TOLERANCE
         IN  SelectSeq(db, LAMBDA r :
                 /\ ~IsNull(r.width)
                 /\ ~IsNull(r.height)
                 /\ 100 * Abs(Val(r.width) - Val(row.width)) <= w_tol
                 /\ 100 * Abs(Val(r.height) - Val(row.height)) <= h_tol)
    ELSE IF ~IsNull(row.width) \/ ~IsNull(row.height)
    THEN <<>>
    ELSE db

\* Mutant: the negation of the non-top branch is missing.
apply_op_filter_without_negation(db, row) ==
    LET top_ops == OOH_SUBJECTS(row.subject_code)
        is_target_top == ~IsNull(row.operator) /\ Val(row.operator) \in top_ops
    IN  IF top_ops # {}
        THEN SelectSeq(db, LAMBDA r :
                 /\ ~IsNull(r.operator)
                 /\ IF is_target_top
                    THEN r.operator = row.operator
                    ELSE Val(r.operator) \in top_ops)
        ELSE db

apply_op_filter(db, row) ==
    LET top_ops == OOH_SUBJECTS(row.subject_code)
        is_target_top == ~IsNull(row.operator) /\ Val(row.operator) \in top_ops
    IN  IF top_ops # {}
        THEN SelectSeq(db, LAMBDA r :
                 /\ ~IsNull(r.operator)
                 /\ IF is_target_top
                    THEN r.operator = row.operator
                    ELSE Val(r.operator) \notin top_ops)
        ELSE db

\* Mutant: the operator filter is applied under either pricing method.
apply_lvl_fltrs_any_method(c_meth, lvl, db, row) ==
    LET d1 == filter_digital(db, row)
        d2 == filter_size(d1, row)
    IN  IF d1 = <<>> THEN d1
        ELSE IF d2 = <<>> THEN d2
        ELSE IF lvl \notin {2, -1}
        THEN apply_op_filter(d2, row)
        ELSE d2

apply_lvl_fltrs(c_meth, lvl, db, row) ==
    LET d1 == filter_digital(db, row)
        d2 == filter_size(d1, row)
    IN  IF d1 = <<>> THEN d1
        ELSE IF d2 = <<>> THEN d2
        ELSE IF c_meth = CMethod.operator_plus /\ lvl \notin {2, -1}
        THEN apply_op_filter(d2, row)
        ELSE d2

(***************************************************************************)
(* core/ooh/panel.py: Panel.filter_panel with Geo.is_close(radius=0.01).   *)
(***************************************************************************)
is_close(lat_1, lat_2, radius) == Haversine(lat_1, lat_2) <= radius

RECURSIVE filter_panel_from(_, _)
filter_panel_from(constructions, unique_constructions) ==
    IF constructions = <<>> THEN unique_constructions
    ELSE LET construction == Head(constructions)
             is_duplicate ==
                 \E k \in 1..Len(unique_constructions) :
                     /\ construction.advertiser = unique_constructions[k].advertiser
                     /\ is_close(construction.latitude, unique_constructions[k].latitude, 10)
         IN  filter_panel_from(Tail(constructions),
                 IF is_duplicate THEN unique_constructions
                 ELSE Append(unique_constructions, construction))

\* Mutant: a candidate is compared with every earlier candidate, dropped
\* ones included.
filter_panel_against_all(constructions) ==
    LET kept == {i \in 1..Len(constructions) :
                    ~\E j \in 1..(i - 1) :
                        /\ constructions[i].advertiser = constructions[j].advertiser
                        /\ is_close(constructions[i].latitude, constructions[j].latitude, 10)}
    IN  [k \in 1..Cardinality(kept) |->
            constructions[CHOOSE i \in kept : Cardinality({j \in kept : j <= i}) = k]]

\* Mutant: nothing is dropped.
filter_panel_keeps_all(constructions) == constructions

filter_panel(constructions) == filter_panel_from(constructions, <<>>)

filter_panel_l0(panel) == IF panel = <<>> THEN panel ELSE filter_panel(panel)

\* Mutant: the minimum of level 0 is required at every level.
check_panel_count_min_only(panel, lvl) == Len(panel) >= REQUIRED_COUNT_MIN

check_panel_count(panel, lvl) ==
    LET req_count == IF lvl = 0 THEN REQUIRED_COUNT_MIN ELSE REQUIRED_COUNT_DEFAULT
    IN  Len(panel) >= req_count

(***************************************************************************)
(* Analyzer._create_panel_mf, the single pass of an MF row.                *)
(***************************************************************************)
\* Mutant: the MF pass applies the filters of level 0, operator included.
create_panel_mf_at_level_0(c_meth, pool, row) ==
    LET price_tol_abs == BASE_PRICE_TOLERANCE * Abs(row.base_price)
        db_dist == calc_dist(row.latitude, filter_fmt_mf(pool))
        db_cand == filter_dist_price(db_dist, RADIUS_MAX_MF, price_tol_abs, row.base_price)
    IN  build_panel(calc_weights(apply_lvl_fltrs(c_meth, 0, db_cand, row), RADIUS_MAX_MF))

create_panel_mf(c_meth, pool, row) ==
    LET price_tol_abs == BASE_PRICE_TOLERANCE * Abs(row.base_price)
        db_mf == filter_fmt_mf(pool)
        db_dist == calc_dist(row.latitude, db_mf)
        db_cand == filter_dist_price(db_dist, RADIUS_MAX_MF, price_tol_abs, row.base_price)
        db_lvl == apply_lvl_fltrs(c_meth, -1, db_cand, row)
    IN  IF db_mf = <<>> THEN <<>>
        ELSE IF db_cand = <<>> THEN <<>>
        ELSE IF db_lvl = <<>> THEN <<>>
        ELSE build_panel(calc_weights(db_lvl, RADIUS_MAX_MF))

(***************************************************************************)
(* core/ooh/panel.py: the aggregate price.  A price before rounding is the *)
(* fraction <<numerator, denominator>> of price units; Round rounds a      *)
(* fraction to a whole number, half to even.                               *)
(***************************************************************************)
Round(q) ==
    LET num == q[1]
        den == q[2]
        lo == num \div den
        r == num % den
    IN  IF 2 * r < den THEN lo
        ELSE IF 2 * r > den THEN lo + 1
        ELSE IF lo % 2 = 0 THEN lo ELSE lo + 1

\* Mutant: the price is rounded to half a rouble, not to a whole rouble.
round_0_to_half(q) == Round(q)

\* round(x, n) with n = 0, the default of calc_base_price: a price in price
\* units in, whole roubles out, again in price units.
round_0(q) == 2 * Round(<<q[1], 2 * q[2]>>)

RECURSIVE Insert(_, _)
Insert(x, s) ==
    IF s = <<>> THEN <<x>>
    ELSE IF x <= Head(s) THEN <<x>> \o s
    ELSE <<Head(s)>> \o Insert(x, Tail(s))

RECURSIVE Sorted(_)
Sorted(s) == IF s = <<>> THEN <<>> ELSE Insert(Head(s), Sorted(Tail(s)))

Prices(constructions) == [i \in 1..Len(constructions) |-> constructions[i].base_price]

calc_mean_price(constructions) ==
    IF constructions = <<>> THEN <<0, 1>>
    ELSE <<SumSeq(Prices(constructions)), Len(constructions)>>

calc_weighted_mean_price(constructions) ==
    IF constructions = <<>> THEN <<0, 1>>
    ELSE <<SumSeq([i \in 1..Len(constructions) |->
                      constructions[i].base_price * constructions[i].weight]),
           SumSeq([i \in 1..Len(constructions) |-> constructions[i].weight])>>

\* scipy.stats.trim_mean(prices, 0.1): int(0.1 * n) values are cut from each
\* end of the sorted prices.
calc_trimmed_mean_price(constructions) ==
    IF constructions = <<>> THEN <<0, 1>>
    ELSE LET n == Len(constructions)
             lowercut == n \div 10
             kept == SubSeq(Sorted(Prices(constructions)), lowercut + 1, n - lowercut)
         IN  <<SumSeq(kept), Len(kept)>>

calc_median_price(constructions) ==
    IF constructions = <<>> THEN <<0, 1>>
    ELSE LET n == Len(constructions)
             s == Sorted(Prices(constructions))
         IN  IF n % 2 = 1 THEN <<s[(n + 1) \div 2], 1>>
             ELSE <<s[n \div 2] + s[n \div 2 + 1], 2>>

SMethods == {SMethod.mean, SMethod.weighted_mean, SMethod.trimmed_mean, SMethod.median}

\* calc_base_price raises ValueError for any other method, and numpy.average
\* raises ZeroDivisionError when the weights sum to zero.
calc_base_price_raises(constructions, method) ==
    \/ method \notin SMethods
    \/ /\ method = SMethod.weighted_mean
       /\ constructions # <<>>
       /\ calc_weighted_mean_price(constructions)[2] = 0

calc_base_price(constructions, method) ==
    IF method = SMethod.mean THEN round_0(calc_mean_price(constructions))
    ELSE IF method = SMethod.weighted_mean THEN round_0(calc_weighted_mean_price(constructions))
    ELSE IF method = SMethod.trimmed_mean THEN round_0(calc_trimmed_mean_price(constructions))
    ELSE round_0(calc_median_price(constructions))

(***************************************************************************)
(* core/ooh/panel.py: composition.  The sorted, comma-joined list of the   *)
(* unique values is modelled by the set of the values; shares are in units *)
(* of 0.01 percent (round(count / total * 100, 2)).                        *)
(***************************************************************************)
get_advertisers(constructions) == {constructions[i].advertiser : i \in 1..Len(constructions)}

get_operators(constructions) ==
    {Val(constructions[i].operator) :
        i \in {k \in 1..Len(constructions) : ~IsNull(constructions[k].operator)}}

description(c) == <<c.format, c.width, c.height>>

get_constructions(constructions) == {description(constructions[i]) : i \in 1..Len(constructions)}

\* counts: the number of occurrences of every non-null value, a dict in the
\* order of the first occurrences, as a sequence of <<value, count>>.
RECURSIVE count_values(_, _)
count_values(values, counts) ==
    IF values = <<>> THEN counts
    ELSE LET value == Head(values)
         IN  IF IsNull(value) THEN count_values(Tail(values), counts)
             ELSE IF \E k \in 1..Len(counts) : counts[k][1] = Val(value)
             THEN count_values(Tail(values),
                      [k \in 1..Len(counts) |->
                          IF counts[k][1] = Val(value)
                          THEN <<counts[k][1], counts[k][2] + 1>>
                          ELSE counts[k]])
             ELSE count_values(Tail(values), Append(counts, <<Val(value), 1>>))

\* sorted(counts.items(), key=count, reverse=True): stable, so values with
\* equal counts stay in the order of the dict.
RECURSIVE insert_item(_, _)
insert_item(item, sorted_items) ==
    IF sorted_items = <<>> THEN <<item>>
    ELSE IF Head(sorted_items)[2] >= item[2]
    THEN <<Head(sorted_items)>> \o insert_item(item, Tail(sorted_items))
    ELSE <<item>> \o sorted_items

RECURSIVE sort_items(_, _)
sort_items(items, sorted_items) ==
    IF items = <<>> THEN sorted_items
    ELSE sort_items(Tail(items), insert_item(Head(items), sorted_items))

\* The place where the slices s[:k] and s[k:] of Python cut a list of the
\* given length.
slice_at(k, length) ==
    IF k < 0 THEN (IF length + k < 0 THEN 0 ELSE length + k)
    ELSE IF k > length THEN length ELSE k

\* The items of the result: with top_n below the number of values, the
\* first top_n items and one item, named as the bucket of the rest (here
\* "Other"), with the sum of the other counts.
fold_items(sorted_items, top_n) ==
    IF ~IsNull(top_n) /\ Val(top_n) < Len(sorted_items)
    THEN LET cut == slice_at(Val(top_n), Len(sorted_items))
             top_items == SubSeq(sorted_items, 1, cut)
             rest == SubSeq(sorted_items, cut + 1, Len(sorted_items))
             rest_count == SumSeq([k \in 1..Len(rest) |-> rest[k][2]])
         IN  IF rest_count > 0 THEN Append(top_items, <<"Other", rest_count>>)
             ELSE top_items
    ELSE sorted_items

\* The dict comprehension over the items (a later item with the same name
\* replaces the value of an earlier one), n = 2.
get_attribute_shares(values, top_n) ==
    LET counts == count_values(values, <<>>)
        total == SumSeq([k \in 1..Len(counts) |-> counts[k][2]])
        items == IF total > 0 THEN fold_items(sort_items(counts, <<>>), top_n) ELSE <<>>
        last(name) == CHOOSE k \in 1..Len(items) :
                          /\ items[k][1] = name
                          /\ \A j \in (k + 1)..Len(items) : items[j][1] # name
    IN  [name \in {items[k][1] : k \in 1..Len(items)} |->
            Round(<<items[last(name)][2] * 10000, total>>)]

get_operator_shares(constructions, top_n) ==
    get_attribute_shares([i \in 1..Len(constructions) |-> constructions[i].operator], top_n)

get_advertiser_shares(constructions, top_n) ==
    get_attribute_shares([i \in 1..Len(constructions) |-> Some(constructions[i].advertiser)],
                         top_n)

\* Mutant: the function is called for an empty panel too.
get_or_none_always(value, panel) == Some(value)

\* execute: get_or_none / get_str_or_none.
get_or_none(value, panel) == IF panel # <<>> THEN Some(value) ELSE None

(***************************************************************************)
(* Inputs.  A run is Analyzer(df, db, ooh_settings).execute().             *)
(***************************************************************************)
MaxRows == 2

LineItem(advertiser, operator, format, is_digital, width, height, base_price, subject_code) ==
    [advertiser |-> advertiser, operator |-> operator, format |-> format,
     is_digital |-> is_digital, width |-> width, height |-> height,
     latitude |-> 0, base_price |-> base_price, subject_code |-> subject_code]

\* A static row of a top operator, an MF row, a row of another advertiser
\* with a non-top operator and an unparsable size, a row with one
\* dimension in a subject without top operators, a row without a
\* subject, an operator and a size, an MF row without a size, an MF row
\* with one dimension, and a digital row of another format in the subject
\* without top operators.
LineItems ==
    << LineItem("A", Some("O1"), "BB", FALSE, Some(20), Some(40), 100, Some("RU-MOW")),
       LineItem("A", Some("O1"), "MF", TRUE, Some(20), Some(40), 100, Some("RU-MOW")),
       LineItem("B", Some("O3"), "BB", FALSE, None, None, 100, Some("RU-MOW")),
       LineItem("A", Some("O1"), "BB", FALSE, Some(20), None, 100, Some("RU-SPB")),
       LineItem("B", None, "BB", FALSE, None, None, 100, None),
       LineItem("A", Some("O1"), "MF", TRUE, None, None, 100, Some("RU-MOW")),
       LineItem("A", Some("O1"), "MF", TRUE, None, Some(40), 100, Some("RU-MOW")),
       LineItem("A", Some("O1"), "DG", TRUE, Some(20), Some(40), 100, Some("RU-SPB")) >>

\* The address programmes: up to MaxRows different line items, in the order
\* of LineItems (the rows of a programme are matched independently).
RECURSIVE Programmes(_, _)
Programmes(n, from) ==
    IF n = 0 THEN {<<>>}
    ELSE {<<>>} \cup
         UNION {{<<LineItems[k]>> \o rest : rest \in Programmes(n - 1, k + 1)} :
                   k \in from..Len(LineItems)}

Reference(advertiser, operator, format, is_digital, width, latitude, base_price, rental_c, subject_code) ==
    [advertiser |-> advertiser, operator |-> operator, format |-> format,
     is_digital |-> is_digital, width |-> width, height |-> Some(40),
     latitude |-> latitude, base_price |-> base_price, rental_c |-> rental_c,
     subject_code |-> subject_code]

Advertisers == <<"B", "C", "D">>

\* n reference rows of one kind: identical rows of one advertiser next to
\* the line item, rows of three advertisers next to it, such rows of a top
\* and a non-top operator in turn, rows of another top operator 4.5 km
\* away, digital rows of one advertiser, two operators and two formats in
\* the subject without top operators, and MF rows 50 m away.
Bulk(kind, n) ==
    [i \in 1..n |->
        LET adv == Advertisers[((i - 1) % 3) + 1]
        IN  CASE kind = "same" ->
                   Reference("C", Some("O1"), "BB", FALSE, Some(20), 0, Some(100),
                             Some(10000), Some("RU-MOW"))
              [] kind = "spread" ->
                   Reference(adv, Some("O1"), "BB", FALSE, Some(20), 0, Some(100 + i),
                             Some(10000), Some("RU-MOW"))
              [] kind = "mixed" ->
                   Reference(adv, Some(IF i % 2 = 1 THEN "O1" ELSE "O3"), "BB", FALSE, Some(20),
                             0, Some(100 + i), Some(10000), Some("RU-MOW"))
              [] kind = "far" ->
                   Reference(adv, Some("O2"), "BB", FALSE, Some(20), 4500, Some(100 - i),
                             Some(10000), Some("RU-MOW"))
              [] kind = "spb" ->
                   Reference("C", Some(IF i % 2 = 1 THEN "O1" ELSE "O3"),
                             IF i % 3 = 0 THEN "MF" ELSE "DG", TRUE, Some(20),
                             0, Some(100), Some(10000), Some("RU-SPB"))
              [] OTHER ->
                   Reference(adv, Some("O1"), "MF", TRUE, Some(20), 50, Some(100 + i),
                             Some(10000), Some("RU-MOW"))]

Bulks ==
    {<<>>, Bulk("mixed", 12), Bulk("spb", 12)}
        \cup {Bulk(kind, n) : kind \in {"same", "spread", "far", "mf"}, n \in {2, 9, 12}}

\* Single reference rows that differ from the rows of a bulk in one respect.
ExtraRows ==
    << Reference("E", Some("O1"), "BB", FALSE, Some(20), 20, Some(100), Some(10000), Some("RU-MOW")),
       Reference("A", Some("O1"), "BB", FALSE, Some(20), 0, Some(100), Some(10000), Some("RU-MOW")),
       Reference("E", Some("O1"), "BB", FALSE, Some(20), 0, None, Some(10000), Some("RU-MOW")),
       Reference("E", Some("O1"), "BB", FALSE, Some(20), 0, Some(0), Some(10000), Some("RU-MOW")),
       Reference("E", Some("O1"), "BB", FALSE, Some(20), 0, Some(151), Some(10000), Some("RU-MOW")),
       Reference("E", Some("O1"), "BB", FALSE, Some(20), 0, Some(100), Some(3000), Some("RU-MOW")),
       Reference("E", Some("O2"), "MF", TRUE, Some(23), 100, Some(150), Some(3001), Some("RU-SPB")),
       Reference("E", Some("O1"), "MF", TRUE, Some(20), 101, Some(100), Some(10000), Some("RU-MOW")),
       Reference("E", Some("O1"), "BB", FALSE, Some(24), 0, Some(100), Some(10000), Some("RU-MOW")),
       Reference("E", Some("O1"), "BB", FALSE, Some(20), 5000, Some(100), Some(10000), Some("RU-MOW")),
       Reference("E", None, "BB", FALSE, Some(20), 0, Some(100), Some(10000), Some("RU-MOW")),
       Reference("E", Some("O1"), "BB", FALSE, Some(20), 0, Some(100), Some(10000), Some("RU-SPB")),
       Reference("E", Some("O1"), "DG", TRUE, Some(20), 0, Some(100), Some(10000), Some("RU-MOW")),
       Reference("E", Some("O1"), "BB", FALSE, None, 0, Some(100), Some(10000), Some("RU-MOW")),
       Reference("E", Some("O1"), "MF", TRUE, None, 50, Some(100), Some(10000), Some("RU-MOW")) >>

\* No extra row, or one.
Extras == {<<>>} \cup {<<ExtraRows[k]>> : k \in 1..Len(ExtraRows)}

WithIds(rows) == [i \in 1..Len(rows) |-> rows[i] @@ ("id" :> i)]

Pools == {WithIds(bulk \o extra) : bulk \in Bulks, extra \in Extras}

(***************************************************************************)
(* State.                                                                  *)
(***************************************************************************)
VARIABLES
    df,              \* Analyzer.df
    db,              \* Analyzer.db
    db0,             \* the pool the analyzer was constructed with
    c_method,        \* ooh_settings.c_method
    s_method,        \* ooh_settings.s_method, once execute has read it
    pc,              \* the position of execute
    row_i,           \* the row _create_panel is working on
    base_db_dist,    \* _create_panel_non_mf: the pool with distances
    lvl,             \* _create_panel_non_mf: the level
    db_lvl_filtered, \* _create_panel_non_mf: the pool after the level filters
    rad_i,           \* _create_panel_non_mf: the position in RAD_RANGE
    panels,          \* execute: the panels created so far
    visits,          \* per row, the (level, radius) combinations evaluated
    accepted,        \* per row, how its panel was returned
    result,          \* Analyzer.result (null until execute has set it)
    resultCols,      \* the columns of Analyzer.result
    error,           \* the exception execute has raised, if any
    call,            \* a call of a function of panel.py or logic.py on its own
    ret,             \* what the call returned or raised (null while it runs)
    guardian,        \* do_ooh_task: the Guardian (null before it is constructed)
    task             \* do_ooh_task: its position, its locals and what it has sent

vars == <<df, db, db0, c_method, s_method, pc, row_i, base_db_dist, lvl, db_lvl_filtered,
          rad_i, panels, visits, accepted, result, resultCols, error, call, ret, guardian, task>>

Init ==
    /\ df \in Programmes(MaxRows, 1)
    /\ db \in Pools
    /\ db0 = db
    /\ c_method \in {CMethod.default, CMethod.operator_plus}
    /\ s_method = None
    /\ pc = "execute"
    /\ row_i = 0
    /\ base_db_dist = <<>>
    /\ lvl = 0
    /\ db_lvl_filtered = <<>>
    /\ rad_i = 0
    /\ panels = <<>>
    /\ visits = <<>>
    /\ accepted = <<>>
    /\ result = None
    /\ resultCols = {}
    /\ error = None
    /\ call = None
    /\ ret = None
    /\ guardian = None
    /\ task = None

(***************************************************************************)
(* Analyzer.execute, step 0: an empty programme gets an empty result with  *)
(* the expected columns; otherwise the pool loses the rows of the          *)
(* programme's advertiser, the rows without a positive price and the rows  *)
(* rented for less than about a week.                                      *)
(***************************************************************************)
ResCols == {"panel_base_price", "advertisers", "operators", "constructions",
            "advertiser_shares", "operator_shares", "subject_name"}

drop_advertiser(pool, advertiser) ==
    SelectSeq(pool, LAMBDA r : r.advertiser # advertiser)

drop_null_prices(pool) ==
    SelectSeq(pool, LAMBDA r : ~IsNull(r.base_price) /\ Val(r.base_price) > 0)

\* Mutant: a coefficient of exactly 0.3 is kept.
drop_short_rental_keeps_03(pool) ==
    SelectSeq(pool, LAMBDA r : ~IsNull(r.rental_c) /\ Val(r.rental_c) >= 3000)

drop_short_rental(pool) ==
    SelectSeq(pool, LAMBDA r : ~IsNull(r.rental_c) /\ Val(r.rental_c) > 3000)

\* Series.unique() does not keep the order of the rows, so unique()[0] is
\* any advertiser of the programme.
first_unique_advertiser(programme) == {programme[i].advertiser : i \in 1..Len(programme)}

\* Mutant: the empty programme is not handled apart.
is_empty_df_never(programme) == FALSE

is_empty_df(programme) == programme = <<>>

Execute ==
    /\ pc = "execute"
    /\ IF is_empty_df(df)
       THEN /\ result' = Some(<<>>)
            /\ resultCols' = InputCols \cup ResCols
            /\ pc' = "done"
            /\ UNCHANGED <<db, row_i, error>>
       ELSE IF first_unique_advertiser(df) = {}
       THEN \* unique()[0] of an empty column raises IndexError.
            /\ error' = Some("IndexError")
            /\ pc' = "error"
            /\ UNCHANGED <<db, row_i, result, resultCols>>
       ELSE /\ \E advertiser \in first_unique_advertiser(df) :
                   db' = drop_short_rental(drop_null_prices(drop_advertiser(db, advertiser)))
            /\ pc' = "create_panel"
            /\ row_i' = 1
            /\ UNCHANGED <<result, resultCols, error>>
    /\ UNCHANGED <<guardian, task, call, ret, df, db0, c_method, s_method, base_db_dist, lvl, db_lvl_filtered, rad_i,
                   panels, visits, accepted>>

(***************************************************************************)
(* Analyzer.execute, step 1: one panel per row, in row order.              *)
(***************************************************************************)
NotAccepted(path) == [path |-> path, lvl |-> None, radius |-> None]

AcceptedAt(l, radius) == [path |-> "non_mf", lvl |-> Some(l), radius |-> Some(radius)]

\* `return panel` of _create_panel, back in the list comprehension of execute.
Return(panel, how) ==
    /\ panels' = Append(panels, panel)
    /\ accepted' = Append(accepted, how)
    /\ row_i' = row_i + 1
    /\ pc' = IF row_i = Len(df) THEN "extract" ELSE "create_panel"
    /\ base_db_dist' = <<>>
    /\ lvl' = 0
    /\ db_lvl_filtered' = <<>>
    /\ rad_i' = 0

CreatePanelMF ==
    /\ pc = "create_panel"
    /\ df[row_i].format = Formats.MF
    /\ Return(create_panel_mf(c_method, db, df[row_i]), NotAccepted("mf"))
    /\ visits' = Append(visits, <<>>)
    /\ UNCHANGED <<guardian, task, call, ret, df, db, db0, c_method, s_method, result, resultCols, error>>

\* Mutant: step P.1 narrows the pool of the analyzer itself.
self_db_narrowed_by_filter_subj(pool, base_db) == base_db

\* Step P.1 binds the rows of the subject to the local base_db; self.db is
\* not assigned.
self_db_after_filter_subj(pool, base_db) == pool

\* _create_panel_non_mf, steps P.0 to P.2.
CreatePanelNonMF ==
    /\ pc = "create_panel"
    /\ df[row_i].format # Formats.MF
    /\ visits' = Append(visits, <<>>)
    /\ LET base_db == filter_subj(c_method, db, df[row_i])
       IN  /\ db' = self_db_after_filter_subj(db, base_db)
           /\ IF base_db = <<>>
              THEN Return(<<>>, NotAccepted("non_mf"))
              ELSE /\ base_db_dist' = calc_dist(df[row_i].latitude, base_db)
                   /\ lvl' = 0
                   /\ pc' = "level"
                   /\ UNCHANGED <<db_lvl_filtered, rad_i, panels, accepted, row_i>>
    /\ UNCHANGED <<guardian, task, call, ret, df, db0, c_method, s_method, result, resultCols, error>>

\* _create_panel_non_mf, step L.1: the filters of the level; a level without
\* candidates is left without trying a radius.
LevelStep ==
    /\ pc = "level"
    /\ lvl < 3
    /\ LET filtered == apply_lvl_fltrs(c_method, lvl, base_db_dist, df[row_i])
       IN  IF filtered = <<>>
           THEN /\ lvl' = lvl + 1
                /\ UNCHANGED <<pc, db_lvl_filtered, rad_i>>
           ELSE /\ db_lvl_filtered' = filtered
                /\ rad_i' = 1
                /\ pc' = "radius"
                /\ UNCHANGED lvl
    /\ UNCHANGED <<guardian, task, call, ret, df, db, db0, c_method, s_method, row_i, base_db_dist, panels, visits,
                   accepted, result, resultCols, error>>

\* _create_panel_non_mf, steps R.1 to R.4 for one radius: the panel that
\* step R.5 checks (empty when the radius was left by `continue`).
panel_at(l, db_lvl, radius, row) ==
    LET price_tol_abs == BASE_PRICE_TOLERANCE * Abs(row.base_price)
        db_cand == filter_dist_price(db_lvl, radius, price_tol_abs, row.base_price)
        panel == build_panel(calc_weights(db_cand, radius))
    IN  IF db_cand = <<>> THEN <<>>
        ELSE IF l = 0 THEN filter_panel_l0(panel)
        ELSE panel

RadiusStep ==
    /\ pc = "radius"
    /\ LET radius == RAD_RANGE[rad_i]
           panel == panel_at(lvl, db_lvl_filtered, radius, df[row_i])
       IN  /\ visits' = [visits EXCEPT ![row_i] = Append(@, <<lvl, radius>>)]
           /\ IF panel # <<>> /\ check_panel_count(panel, lvl)
              THEN Return(panel, AcceptedAt(lvl, radius))
              ELSE /\ IF rad_i = Len(RAD_RANGE)
                      THEN /\ lvl' = lvl + 1
                           /\ pc' = "level"
                           /\ rad_i' = 0
                           /\ db_lvl_filtered' = <<>>
                      ELSE /\ rad_i' = rad_i + 1
                           /\ UNCHANGED <<lvl, pc, db_lvl_filtered>>
                   /\ UNCHANGED <<row_i, base_db_dist, panels, accepted>>
    /\ UNCHANGED <<guardian, task, call, ret, df, db, db0, c_method, s_method, result, resultCols, error>>

\* _create_panel_non_mf, the last line: every level has been tried.
Exhausted ==
    /\ pc = "level"
    /\ lvl = 3
    /\ Return(<<>>, NotAccepted("non_mf"))
    /\ UNCHANGED <<guardian, task, call, ret, df, db, db0, c_method, s_method, visits, result, resultCols, error>>

(***************************************************************************)
(* Analyzer.execute, steps 2 and 3: the derived fields of every row.       *)
(***************************************************************************)
derived(panel, method) ==
    [panel_base_price |-> get_or_none(calc_base_price(panel, method), panel),
     advertisers |-> get_or_none(get_advertisers(panel), panel),
     operators |-> get_or_none(get_operators(panel), panel),
     constructions |-> get_or_none(get_constructions(panel), panel),
     advertiser_shares |-> get_or_none(get_advertiser_shares(panel, None), panel),
     operator_shares |-> get_or_none(get_operator_shares(panel, None), panel)]

\* Mutant: calc_base_price is called for every panel.
extract_raises_for_empty(ps, method) ==
    \E i \in 1..Len(ps) : calc_base_price_raises(ps[i], method)

\* get_or_none calls calc_base_price for the non-empty panels only.
extract_raises(ps, method) ==
    \E i \in 1..Len(ps) : ps[i] # <<>> /\ calc_base_price_raises(ps[i], method)

Extract ==
    /\ pc = "extract"
    /\ \E method \in SMethods \cup {"other"} :
          /\ s_method' = Some(method)
          /\ IF extract_raises(panels, method)
             THEN /\ error' = Some("ValueError")
                  /\ pc' = "error"
                  /\ UNCHANGED <<result, resultCols>>
             ELSE /\ result' = Some([i \in 1..Len(df) |-> df[i] @@ derived(panels[i], method)])
                  /\ resultCols' = InputCols \cup (ResCols \ {"subject_name"})
                  /\ pc' = "subjects"
                  /\ UNCHANGED error
    /\ UNCHANGED <<guardian, task, call, ret, df, db, db0, c_method, row_i, base_db_dist, lvl, db_lvl_filtered, rad_i,
                   panels, visits, accepted>>

(***************************************************************************)
(* Analyzer.execute, step 4, with Geo.get_subject.                         *)
(***************************************************************************)
get_subject(subject_code) ==
    IF subject_code = "RU-MOW" THEN "Moscow"
    ELSE IF subject_code = "RU-MOS" THEN "Moscow region"
    ELSE IF subject_code = "RU-SPB" THEN "Saint Petersburg"
    ELSE IF subject_code = "RU-LEN" THEN "Leningrad region"
    ELSE "Regions"

AddSubjects ==
    /\ pc = "subjects"
    /\ LET rows == Val(result)
       IN  result' = Some([i \in 1..Len(rows) |->
                 rows[i] @@ ("subject_name" :>
                     IF IsNull(rows[i].subject_code) THEN None
                     ELSE Some(get_subject(Val(rows[i].subject_code))))])
    /\ resultCols' = resultCols \cup {"subject_name"}
    /\ pc' = "done"
    /\ UNCHANGED <<guardian, task, call, ret, df, db, db0, c_method, s_method, row_i, base_db_dist, lvl, db_lvl_filtered,
                   rad_i, panels, visits, accepted, error>>

Next ==
    \/ Execute
    \/ CreatePanelMF
    \/ CreatePanelNonMF
    \/ LevelStep
    \/ RadiusStep
    \/ Exhausted
    \/ Extract
    \/ AddSubjects

Spec == Init /\ [][Next]_vars

(***************************************************************************)
(* What the claims speak of.                                               *)
(***************************************************************************)
IsMF(row) == row.format = "MF"

\* The rows whose panel has been returned.
Returned == 1..Len(panels)

\* The pre-pass has run.
PrePassed == pc # "execute" /\ df # <<>>

\* Membership of a reference row in the match set of a line item at a level
\* and a radius, stated on the row itself.
InSubject(r, row) ==
    c_method = "operator_plus" =>
        r.subject_code # None /\ row.subject_code # None /\ r.subject_code = row.subject_code

SizeMatches(r, row) ==
    IF row.width # None /\ row.height # None
    THEN /\ r.width # None
         /\ r.height # None
         /\ 100 * Abs(Val(r.width) - Val(row.width)) <= 15 * Val(row.width)
         /\ 100 * Abs(Val(r.height) - Val(row.height)) <= 15 * Val(row.height)
    ELSE row.width = None /\ row.height = None

OperatorMatches(r, row, l) ==
    (c_method = "operator_plus" /\ l \in {0, 1} /\ OOH_SUBJECTS(row.subject_code) # {}) =>
        /\ r.operator # None
        /\ IF row.operator # None /\ Val(row.operator) \in OOH_SUBJECTS(row.subject_code)
           THEN r.operator = row.operator
           ELSE Val(r.operator) \notin OOH_SUBJECTS(row.subject_code)

PriceMatches(r, row) ==
    r.base_price # None /\ 2 * Abs(Val(r.base_price) - row.base_price) <= Abs(row.base_price)

Matches(r, row, l, radius) ==
    /\ InSubject(r, row)
    /\ r.is_digital = row.is_digital
    /\ SizeMatches(r, row)
    /\ OperatorMatches(r, row, l)
    /\ Abs(r.latitude - row.latitude) <= radius
    /\ PriceMatches(r, row)

MatchSet(row, l, radius) == SelectSeq(db, LAMBDA r : Matches(r, row, l, radius))

\* The size that _check_panel_count sees at a (level, radius) combination.
CountAt(row, l, radius) ==
    IF l = 0 THEN Len(filter_panel(MatchSet(row, l, radius)))
    ELSE Len(MatchSet(row, l, radius))

Required(l) == IF l = 0 THEN 3 ELSE 10

Sufficient(row, l, radius) == CountAt(row, l, radius) >= Required(l)

Ids(s) == [i \in 1..Len(s) |-> s[i].id]

\* (l1, r1) comes before (l2, r2) in the order level-major, radius-minor.
Before(l1, r1, l2, r2) == l1 < l2 \/ (l1 = l2 /\ r1 < r2)

Radii == {500 * k : k \in 0..10}

\* C1: a non-MF row's panel is empty, or was accepted at level 0 with at
\* least 3 members (after the proximity dedup), or at level 1 or 2 with at
\* least 10 members.
C1_MinimumSize ==
    \A i \in Returned :
        ~IsMF(df[i]) =>
            \/ panels[i] = <<>>
            \/ accepted[i].lvl = Some(0) /\ Len(panels[i]) >= 3
            \/ accepted[i].lvl \in {Some(1), Some(2)} /\ Len(panels[i]) >= 10

\* One row accepted at level 0 with exactly 3 members left by the dedup of a
\* larger match set, another accepted at level 2.
C1_Witness ==
    \E i, j \in Returned :
        /\ accepted[i].lvl = Some(0)
        /\ Len(panels[i]) = 3
        /\ Len(MatchSet(df[i], 0, Val(accepted[i].radius))) > 3
        /\ accepted[j].lvl = Some(2)
        /\ Len(panels[j]) >= 10

\* The panel of row i has just been returned; nothing that is recorded of
\* the row changes afterwards.
JustReturned(i) == i = Len(panels) /\ pc \in {"create_panel", "extract"}

\* The level filters of level l leave no candidate for the row.
LevelEmpty(row, l) ==
    \A q \in 1..Len(db) :
        ~(/\ InSubject(db[q], row)
          /\ db[q].is_digital = row.is_digital
          /\ SizeMatches(db[q], row)
          /\ OperatorMatches(db[q], row, l))

\* C2: the combinations are evaluated in the order level-major, radius
\* ascending; when a panel is returned, every combination before the
\* accepted one was evaluated (unless its level had no candidates at all)
\* and was insufficient, the accepted combination is sufficient and is the
\* last one evaluated; a row without an accepted combination has no
\* sufficient combination.
C2_FirstSufficient ==
    \A i \in 1..Len(visits) :
        /\ \A a \in 1..(Len(visits[i]) - 1) :
              Before(visits[i][a][1], visits[i][a][2], visits[i][a + 1][1], visits[i][a + 1][2])
        /\ \A a \in 1..Len(visits[i]) : visits[i][a][1] \in 0..2 /\ visits[i][a][2] \in Radii
        /\ (JustReturned(i) /\ ~IsMF(df[i])) =>
              IF accepted[i].lvl # None
              THEN LET L == Val(accepted[i].lvl)
                       R == Val(accepted[i].radius)
                   IN  /\ visits[i][Len(visits[i])] = <<L, R>>
                       /\ Sufficient(df[i], L, R)
                       /\ Ids(panels[i]) =
                             Ids(IF L = 0 THEN filter_panel(MatchSet(df[i], L, R))
                                 ELSE MatchSet(df[i], L, R))
                       /\ \A l \in 0..2, r \in Radii :
                             Before(l, r, L, R) =>
                                 /\ ~Sufficient(df[i], l, r)
                                 /\ <<l, r>> \in Range(visits[i]) \/ LevelEmpty(df[i], l)
              ELSE /\ panels[i] = <<>>
                   /\ \A l \in 0..2, r \in Radii : ~Sufficient(df[i], l, r)

\* The only sufficient combination is level 2 at 4.5 km, and it was accepted.
C2_Witness ==
    \E i \in Returned :
        /\ accepted[i] = AcceptedAt(2, 4500)
        /\ \A l \in 0..2, r \in Radii : Sufficient(df[i], l, r) => (l = 2 /\ r >= 4500)
        /\ Len(visits[i]) = 10

\* The scenario of 12 candidates next to the line item: under the method
\* "default" the pool holds 12 rows, all at distance 0 from row i and all
\* matching its digital flag, its size and its price within the tolerance.
TwelveAtDistanceZero(i) ==
    /\ c_method = "default"
    /\ ~IsMF(df[i])
    /\ Len(db) = 12
    /\ \A k \in 1..Len(db) : db[k].latitude = df[i].latitude /\ Matches(db[k], df[i], 0, 0)

Identical(pool) ==
    \A a, b \in 1..Len(pool) : [pool[a] EXCEPT !.id = 0] = [pool[b] EXCEPT !.id = 0]

\* C3 as stated: 12 identical candidates at distance 0 give a panel accepted
\* at level 0 and radius 0.0 with at most 12 members.
C3_AsStated ==
    \A i \in Returned :
        (TwelveAtDistanceZero(i) /\ Identical(db)) =>
            /\ accepted[i] = AcceptedAt(0, 0)
            /\ Len(panels[i]) \in 1..12

\* C3, amended: 12 candidates at distance 0 that match the row give a panel
\* accepted at radius 0.0: at level 0 with one member per advertiser when
\* they belong to at least 3 advertisers, and otherwise (12 identical
\* candidates are deduped to one) at level 1 with all 12 members.
C3_TwelveCandidates ==
    \A i \in Returned :
        TwelveAtDistanceZero(i) =>
            LET advs == {db[k].advertiser : k \in 1..Len(db)}
            IN  IF Cardinality(advs) >= 3
                THEN /\ accepted[i] = AcceptedAt(0, 0)
                     /\ Len(panels[i]) = Cardinality(advs)
                ELSE /\ accepted[i] = AcceptedAt(1, 0)
                     /\ Len(panels[i]) = 12

\* 12 identical candidates, returned as a level-1 panel of 12.
C3_Witness ==
    \E i \in Returned :
        /\ TwelveAtDistanceZero(i)
        /\ Identical(db)
        /\ accepted[i] = AcceptedAt(1, 0)
        /\ Len(panels[i]) = 12
        /\ visits[i][1] = <<0, 0>>

\* A measure of the work execute has left: 42 per row that has no panel yet
\* (13 per level that is left, one per radius), 2 for the extraction.
Measure ==
    LET rows_left == Len(df) - Len(panels)
    IN  CASE pc = "execute" -> 42 * (Len(df) + 1)
          [] pc = "create_panel" -> 42 * rows_left + 41
          [] pc = "level" -> 42 * rows_left + 13 * (3 - lvl) + 1
          [] pc = "radius" -> 42 * rows_left + 13 * (3 - lvl) - rad_i
          [] pc = "extract" -> 2
          [] pc = "subjects" -> 1
          [] OTHER -> 0

\* Some step of execute can be taken.
CanStep ==
    \/ pc \in {"execute", "extract"}
    \/ pc = "create_panel" /\ row_i \in 1..Len(df)
    \/ pc = "level" /\ lvl \in 0..3
    \/ pc = "radius" /\ lvl \in 0..2 /\ rad_i \in 1..11
    \/ pc = "subjects" /\ result # None

\* What a search has done and returned so far.
SearchShape ==
    \A i \in 1..Len(visits) :
        /\ Len(visits[i]) <= 3 * 11
        /\ Cardinality(Range(visits[i])) = Len(visits[i])
        /\ (i \in Returned /\ ~IsMF(df[i])) =>
              IF accepted[i].lvl # None
              THEN Len(panels[i]) >= Required(Val(accepted[i].lvl))
              ELSE /\ panels[i] = <<>>
                   /\ \A l \in 0..2 :
                         \/ LevelEmpty(df[i], l)
                         \/ \A r \in Radii : <<l, r>> \in Range(visits[i])

\* C4: every step of execute lowers the measure, so a run takes finitely
\* many steps; a state that is not final can take a step; a search
\* evaluates at most 3 x 11 combinations, none of them twice, and returns a
\* panel of the required size or, with every combination tried and failed,
\* the empty panel.
C4_Terminates ==
    [][/\ Measure' < Measure
       /\ Measure' >= 0
       /\ (pc' \in {"done", "error"} \/ CanStep')
       /\ SearchShape']_vars

\* A search that tried all 33 combinations and returned the empty panel.
C4_Witness ==
    \E i \in Returned :
        /\ Len(visits[i]) = 33
        /\ panels[i] = <<>>
        /\ pc = "done"

\* C5 as stated: once the pre-pass has run, the pool holds no row of the
\* advertiser of any input row, and no panel holds a candidate of its own
\* row's advertiser.
C5_OwnAdvertiserExcluded ==
    PrePassed =>
        \A i \in 1..Len(df) :
            /\ \A k \in 1..Len(db) : db[k].advertiser # df[i].advertiser
            /\ i \in Returned =>
                  \A m \in 1..Len(panels[i]) : panels[i][m].advertiser # df[i].advertiser

\* C6: after the pre-pass no row of the pool has a null or non-positive
\* price or a rental coefficient of 0.3 or less, and neither has the pool row
\* behind any candidate of any panel.
PriceAndRentalValid(r) ==
    /\ r.base_price # None
    /\ Val(r.base_price) > 0
    /\ ~(r.rental_c # None /\ Val(r.rental_c) <= 3000)

C6_PrePassFilters ==
    PrePassed =>
        /\ \A k \in 1..Len(db) : PriceAndRentalValid(db[k])
        /\ \A i \in Returned : \A m \in 1..Len(panels[i]) :
              /\ PriceAndRentalValid(db0[panels[i][m].id])
              /\ panels[i][m].base_price > 0

\* The pre-pass dropped a row rented for exactly 0.3 of a month, and a panel
\* was built from the rest.
C6_Witness ==
    /\ PrePassed
    /\ \E k \in 1..Len(db0) :
          /\ db0[k].rental_c = Some(3000)
          /\ \A q \in 1..Len(db) : db[q].id # k
    /\ \E i \in Returned : panels[i] # <<>>

\* The pool rows an MF row matches.
MatchesMF(r, row) ==
    /\ r.format = "MF"
    /\ Abs(r.latitude - row.latitude) <= 100
    /\ PriceMatches(r, row)
    /\ r.is_digital = row.is_digital
    /\ SizeMatches(r, row)

\* C7: the panel of an MF row is exactly the pool rows of format MF within
\* 0.1 km and the price tolerance that match the digital flag and the size,
\* in pool order; no (level, radius) combination is tried for it, and it is
\* empty when the pool has no MF row.
C7_MFSinglePass ==
    \A i \in Returned :
        IsMF(df[i]) =>
            /\ Ids(panels[i]) = Ids(SelectSeq(db, LAMBDA r : MatchesMF(r, df[i])))
            /\ visits[i] = <<>>
            /\ accepted[i] = NotAccepted("mf")
            /\ (\A k \in 1..Len(db) : db[k].format # "MF") => panels[i] = <<>>

\* An MF panel under "operator_plus" with two candidates of one advertiser
\* at one place and a candidate of another top operator and another subject
\* exactly 0.1 km away.
C7_Witness ==
    \E i \in Returned :
        /\ IsMF(df[i])
        /\ c_method = "operator_plus"
        /\ \E a, b \in 1..Len(panels[i]) :
              /\ a # b
              /\ panels[i][a].advertiser = panels[i][b].advertiser
              /\ panels[i][a].latitude = panels[i][b].latitude
        /\ \E m \in 1..Len(panels[i]) :
              /\ panels[i][m].operator # df[i].operator
              /\ panels[i][m].distance = 100
              /\ db0[panels[i][m].id].subject_code # df[i].subject_code

DerivedFields == {"panel_base_price", "advertisers", "operators", "constructions",
                  "advertiser_shares", "operator_shares"}

AllNull(r) == \A f \in DerivedFields : r[f] = None

NoneNull(r) == \A f \in DerivedFields : r[f] # None

\* C8: a row of the result has all six derived fields null when its panel
\* is empty and all six computed when it is not; the price is then the
\* aggregate of the configured method and lies between the lowest and the
\* highest price of the panel, up to the rounding to whole roubles.
C8_DerivedFields ==
    (result # None /\ df # <<>>) =>
        /\ Len(Val(result)) = Len(df)
        /\ \A i \in 1..Len(df) :
              LET r == Val(result)[i]
              IN  IF panels[i] = <<>>
                  THEN AllNull(r)
                  ELSE /\ NoneNull(r)
                       /\ r.panel_base_price = Some(calc_base_price(panels[i], Val(s_method)))
                       /\ \E m \in 1..Len(panels[i]) :
                             panels[i][m].base_price <= Val(r.panel_base_price) + 1
                       /\ \E m \in 1..Len(panels[i]) :
                             panels[i][m].base_price >= Val(r.panel_base_price) - 1

\* A finished run with an empty and a non-empty panel, weighted mean.
C8_Witness ==
    /\ pc = "done"
    /\ s_method = Some("weighted_mean")
    /\ \E i, j \in 1..Len(df) :
          /\ panels[i] = <<>>
          /\ Val(result)[i].panel_base_price = None
          /\ Len(panels[j]) >= 3
          /\ Val(result)[j].panel_base_price # None

\* C9: execute on an empty programme ends without an error, with a
\* zero-row result that has the input columns and the seven output columns,
\* and leaves the pool as it was.
C9_EmptyProgramme ==
    (df = <<>> /\ pc # "execute") =>
        /\ pc = "done"
        /\ error = None
        /\ result = Some(<<>>)
        /\ resultCols = InputCols \cup
              {"panel_base_price", "advertisers", "operators", "constructions",
               "advertiser_shares", "operator_shares", "subject_name"}
        /\ db = db0

\* The empty programme with a pool that the pre-pass would have changed.
C9_Witness ==
    /\ df = <<>>
    /\ pc = "done"
    /\ \E k \in 1..Len(db0) : db0[k].base_price = None

\* C10: with a pool that is empty after the pre-pass every panel is empty,
\* every derived field is null and nothing is raised, whatever the methods;
\* and execute raises only for an unsupported smoothing method met with a
\* non-empty panel, never because of a row's size.
C10_Degenerate ==
    /\ (PrePassed /\ db = <<>>) =>
          /\ error = None
          /\ \A i \in Returned : panels[i] = <<>>
          /\ result # None => \A i \in 1..Len(df) : AllNull(Val(result)[i])
    /\ error # None =>
          /\ s_method # None
          /\ Val(s_method) \notin {"mean", "weighted_mean", "trimmed_mean", "median"}
          /\ \E i \in Returned : panels[i] # <<>>

\* A finished run of an MF row and a row without a size on a pool that the
\* pre-pass emptied.
C10_Witness ==
    /\ pc = "done"
    /\ db0 # <<>>
    /\ db = <<>>
    /\ \E i, j \in 1..Len(df) :
          /\ IsMF(df[i])
          /\ ~IsMF(df[j])
          /\ df[j].width = None
    /\ \A i \in 1..Len(df) : AllNull(Val(result)[i])

\* The panel a row gets from a pool, stated on the row and the pool alone:
\* for an MF row the pool rows it matches, for another row the match set of
\* the first sufficient combination, deduped at level 0.
Combinations == (0..2) \X Radii

ExpectedPanel(row) ==
    IF IsMF(row)
    THEN build_panel(calc_weights(calc_dist(row.latitude,
             SelectSeq(db, LAMBDA r : MatchesMF(r, row))), 100))
    ELSE LET ok == {c \in Combinations : Sufficient(row, c[1], c[2])}
         IN  IF ok = {} THEN <<>>
             ELSE LET first == CHOOSE c \in ok :
                                   \A d \in ok : c = d \/ Before(c[1], c[2], d[1], d[2])
                      built == build_panel(calc_weights(calc_dist(row.latitude,
                                   MatchSet(row, first[1], first[2])), first[2]))
                  IN  IF first[1] = 0 THEN filter_panel(built) ELSE built

SameDerived(r, d) ==
    /\ r.panel_base_price = d.panel_base_price
    /\ r.advertisers = d.advertisers
    /\ r.operators = d.operators
    /\ r.constructions = d.constructions
    /\ r.advertiser_shares = d.advertiser_shares
    /\ r.operator_shares = d.operator_shares

TopOps(row) == OOH_SUBJECTS(row.subject_code)

IsTargetTop(row) == row.operator # None /\ Val(row.operator) \in TopOps(row)

\* The pool rows that match the row within the radius when the operator is
\* left out of account.
MatchSetAnyOperator(row, radius) == MatchSet(row, 2, radius)

\* C12: under "operator_plus", for a row whose subject has top operators,
\* a non-MF panel accepted at level 0 or 1 holds only candidates of the
\* row's operator when that is a top operator, and no candidate of a top
\* operator when it is not; a panel accepted at level 2, and any panel
\* accepted under "default", is the match set taken without regard to the
\* operator (deduped at level 0).
C12_OperatorFilter ==
    \A i \in Returned :
        (~IsMF(df[i]) /\ accepted[i].lvl # None) =>
            LET row == df[i]
                L == Val(accepted[i].lvl)
                R == Val(accepted[i].radius)
            IN  /\ (c_method = "operator_plus" /\ TopOps(row) # {} /\ L \in {0, 1}) =>
                      IF IsTargetTop(row)
                      THEN \A m \in 1..Len(panels[i]) : panels[i][m].operator = row.operator
                      ELSE \A m \in 1..Len(panels[i]) :
                               ~(/\ panels[i][m].operator # None
                                 /\ Val(panels[i][m].operator) \in TopOps(row))
                /\ (c_method = "default" \/ L = 2) =>
                      Ids(panels[i]) =
                          Ids(IF L = 0 THEN filter_panel(MatchSetAnyOperator(row, R))
                              ELSE MatchSetAnyOperator(row, R))

\* Under "operator_plus": a level-0 panel of a row of a top operator and a
\* level-0 panel of a row of a non-top operator, each on a pool with rows of
\* the other kind that match the row otherwise.
C12_Witness ==
    /\ c_method = "operator_plus"
    /\ \E i, j \in Returned :
          /\ accepted[i].lvl = Some(0)
          /\ IsTargetTop(df[i])
          /\ accepted[j].lvl = Some(0)
          /\ TopOps(df[j]) # {}
          /\ ~IsTargetTop(df[j])
          /\ \E k \in 1..Len(db) :
                /\ Matches(db[k], df[i], 2, 0)
                /\ db[k].operator # df[i].operator
          /\ \E k \in 1..Len(db) :
                /\ Matches(db[k], df[j], 2, 0)
                /\ Val(db[k].operator) \in TopOps(df[j])

\* A level-2 panel under "operator_plus" that holds a candidate of a top
\* operator other than the row's.
C12_WitnessLevel2 ==
    \E i \in Returned :
        /\ c_method = "operator_plus"
        /\ accepted[i].lvl = Some(2)
        /\ \E m \in 1..Len(panels[i]) :
              /\ panels[i][m].operator # df[i].operator
              /\ Val(panels[i][m].operator) \in TopOps(df[i])

\* The pool rows that match the row within the radius when the subject and
\* the operator are left out of account.
MatchesAnySubject(r, row, radius) ==
    /\ r.is_digital = row.is_digital
    /\ SizeMatches(r, row)
    /\ Abs(r.latitude - row.latitude) <= radius
    /\ PriceMatches(r, row)

\* C13: under "operator_plus" every candidate of a non-MF row's panel comes
\* from a pool row of the row's subject, and a row without a subject gets
\* the empty panel without a combination being tried; under "default" an
\* accepted panel is the match set taken without regard to the subject
\* (deduped at level 0).
C13_SubjectFilter ==
    \A i \in Returned :
        ~IsMF(df[i]) =>
            /\ c_method = "operator_plus" =>
                  /\ \A m \in 1..Len(panels[i]) :
                        db0[panels[i][m].id].subject_code = df[i].subject_code
                  /\ df[i].subject_code = None =>
                        panels[i] = <<>> /\ visits[i] = <<>>
            /\ (c_method = "default" /\ accepted[i].lvl # None) =>
                  LET R == Val(accepted[i].radius)
                      any == SelectSeq(db, LAMBDA r : MatchesAnySubject(r, df[i], R))
                  IN  Ids(panels[i]) =
                          Ids(IF accepted[i].lvl = Some(0) THEN filter_panel(any) ELSE any)

\* Under "operator_plus", on a pool with a row of another subject that
\* matches otherwise: a row with a non-empty panel, and a row without a
\* subject with the empty panel.
C13_Witness ==
    /\ c_method = "operator_plus"
    /\ \E i, j \in Returned :
          /\ ~IsMF(df[i])
          /\ panels[i] # <<>>
          /\ \E k \in 1..Len(db) :
                /\ db[k].subject_code # df[i].subject_code
                /\ MatchesAnySubject(db[k], df[i], Val(accepted[i].radius))
          /\ df[j].subject_code = None
          /\ panels[j] = <<>>
          /\ \E k \in 1..Len(db) : MatchesAnySubject(db[k], df[j], 0)

\* Under "default", a panel with a candidate of another subject than the
\* row's.
C13_WitnessDefault ==
    \E i \in Returned :
        /\ c_method = "default"
        /\ ~IsMF(df[i])
        /\ \E m \in 1..Len(panels[i]) :
              db0[panels[i][m].id].subject_code # df[i].subject_code

\* A panel whose candidates all have a distance of at least 0 and a weight
\* between 0 and 1.
WellWeighted(panel) ==
    \A m \in 1..Len(panel) :
        /\ panel[m].distance >= 0
        /\ panel[m].weight >= 0
        /\ panel[m].weight <= 1000

\* C14: every candidate of every panel the engine builds, returned or
\* built for a radius of the sequence and then rejected, has a distance of
\* at least 0 and a weight in [0, 1]; the candidates of an MF panel, built
\* at the radius 0.1, have the weight 1.
C14_DistanceAndWeight ==
    /\ \A i \in Returned :
          /\ WellWeighted(panels[i])
          /\ IsMF(df[i]) => \A m \in 1..Len(panels[i]) : panels[i][m].weight = 1000
    /\ pc = "radius" =>
          WellWeighted(panel_at(lvl, db_lvl_filtered, RAD_RANGE[rad_i], df[row_i]))

\* A panel accepted at 4.5 km with a candidate on the rim, whose weight is
\* strictly between 0 and 1, after the radius 0.0 was tried for the row.
C14_Witness ==
    \E i \in Returned :
        /\ accepted[i].radius = Some(4500)
        /\ \E a \in 1..Len(visits[i]) : visits[i][a][2] = 0
        /\ \E m \in 1..Len(panels[i]) :
              /\ panels[i][m].distance = 4500
              /\ panels[i][m].weight > 0
              /\ panels[i][m].weight < 1000

(***************************************************************************)
(* The functions of panel.py and logic.py called on their own, outside a   *)
(* run of the analyzer: `call` holds the function and its arguments, `ret` *)
(* what it returned or raised.                                             *)
(***************************************************************************)
\* No analyzer is at work.
NoAnalyzer ==
    /\ df = <<>>
    /\ db = <<>>
    /\ db0 = <<>>
    /\ c_method = CMethod.default
    /\ s_method = None
    /\ pc = "call"
    /\ row_i = 0
    /\ base_db_dist = <<>>
    /\ lvl = 0
    /\ db_lvl_filtered = <<>>
    /\ rad_i = 0
    /\ panels = <<>>
    /\ visits = <<>>
    /\ accepted = <<>>
    /\ result = None
    /\ resultCols = {}
    /\ error = None

analyzerVars == <<df, db, db0, c_method, s_method, pc, row_i, base_db_dist, lvl,
                  db_lvl_filtered, rad_i, panels, visits, accepted, result, resultCols, error>>

Returns(value) == Some([value |-> value, raised |-> None])

Raises(exception) == Some([value |-> None, raised |-> Some(exception)])

(***************************************************************************)
(* core/ooh/logic.py: Coefficient.calc_distance_c(distance, radius), with  *)
(* decay_rate = 1.0; distances and radii in metres, the coefficient in     *)
(* units of 1e-3.  The same formula is in Analyzer._calc_weights (Weight), *)
(* which also replaces a negative or non-finite weight by 0.               *)
(***************************************************************************)
calc_distance_c(distance, radius) ==
    IF 0 <= radius /\ radius <= 100
    THEN 1000
    ELSE ExpNeg((10 * distance) \div radius)

\* Distances and radii, in metres: a float argument may be negative.
DistanceArgs == {-500, 0, 50, 100, 500, 2500, 5000}

RadiusArgs == {-2500, 0, 50, 100, 101, 500, 5000}

DistanceCalls ==
    [fn : {"calc_distance_c"}, distance : DistanceArgs, radius : RadiusArgs]

CallDistanceC ==
    /\ call # None
    /\ Val(call).fn = "calc_distance_c"
    /\ ret = None
    /\ ret' = Returns([c |-> calc_distance_c(Val(call).distance, Val(call).radius),
                       weight |-> Weight(Val(call).distance, Val(call).radius)])
    /\ UNCHANGED <<analyzerVars, guardian, task, call>>

(***************************************************************************)
(* core/ooh/panel.py: Panel(constructions) and its methods called on a     *)
(* panel given from outside.  Weights are in units of 1e-3 and prices in   *)
(* half roubles, as above; a construction's weight is any float, 0         *)
(* included.                                                               *)
(***************************************************************************)
MaxPanel == 4

Construction(advertiser, operator, latitude, base_price, weight) ==
    [advertiser |-> advertiser, operator |-> operator, format |-> "BB",
     width |-> Some(20), height |-> Some(40), latitude |-> latitude,
     base_price |-> base_price, distance |-> latitude, weight |-> weight]

\* Three constructions of one advertiser 10 m from one another, one of them
\* with a price of 100.5 roubles and one with the weight 0 and no operator;
\* a construction of another advertiser; and a construction whose
\* advertiser and operator are called as the bucket of the folded values.
ConstructionArgs ==
    { Construction("B", Some("O1"), 0, 200, 1000),
      Construction("B", Some("O2"), 10, 201, 368),
      Construction("B", None, 20, 203, 0),
      Construction("C", Some("O1"), 0, 300, 1000),
      Construction("Other", Some("Other"), 11, 100, 500) }

RECURSIVE PanelsOfLength(_)
PanelsOfLength(n) ==
    IF n = 0 THEN {<<>>}
    ELSE {Append(p, c) : p \in PanelsOfLength(n - 1), c \in ConstructionArgs}

\* Panel(constructions): the constructions in their order, `id` being the
\* position of each.
PanelArgs == {WithIds(p) : p \in UNION {PanelsOfLength(n) : n \in 0..MaxPanel}}

(***************************************************************************)
(* Panel.calc_base_price(method), n = 0.                                   *)
(***************************************************************************)
BasePriceCalls ==
    [fn : {"calc_base_price"}, constructions : {p \in PanelArgs : Len(p) <= 2},
     method : SMethods \cup {"other"}]

CallBasePrice ==
    /\ call # None
    /\ Val(call).fn = "calc_base_price"
    /\ ret = None
    /\ ret' = IF Val(call).method \notin SMethods
              THEN Raises("ValueError")
              ELSE IF calc_base_price_raises(Val(call).constructions, Val(call).method)
              THEN Raises("ZeroDivisionError")
              ELSE Returns(calc_base_price(Val(call).constructions, Val(call).method))
    /\ UNCHANGED <<analyzerVars, guardian, task, call>>

(***************************************************************************)
(* Panel.filter_panel().                                                   *)
(***************************************************************************)
FilterPanelCalls == [fn : {"filter_panel"}, constructions : PanelArgs]

CallFilterPanel ==
    /\ call # None
    /\ Val(call).fn = "filter_panel"
    /\ ret = None
    /\ ret' = Returns(filter_panel(Val(call).constructions))
    /\ UNCHANGED <<analyzerVars, guardian, task, call>>

(***************************************************************************)
(* Panel.get_advertiser_shares(top_n) and Panel.get_operator_shares(top_n),*)
(* n = 2.                                                                  *)
(***************************************************************************)
TopNArgs == {None} \cup {Some(k) : k \in -1..3}

SharesCalls ==
    [fn : {"shares"}, attribute : {"advertiser", "operator"}, constructions : PanelArgs,
     top_n : TopNArgs]

CallShares ==
    /\ call # None
    /\ Val(call).fn = "shares"
    /\ ret = None
    /\ ret' = Returns(IF Val(call).attribute = "advertiser"
                      THEN get_advertiser_shares(Val(call).constructions, Val(call).top_n)
                      ELSE get_operator_shares(Val(call).constructions, Val(call).top_n))
    /\ UNCHANGED <<analyzerVars, guardian, task, call>>

(***************************************************************************)
(* core/ooh/logic.py: Coefficient.calc_inflation_c(rates_dict,             *)
(* subject_code, format_type, year_from, year_to, default_rates), n = 4.   *)
(* A rate is in units of 1e-1, the coefficient in units of 1e-4; the       *)
(* cumulative rate is the fraction <<numerator, denominator>>.  A dict is  *)
(* a function on its keys.                                                 *)
(***************************************************************************)
\* Mutant: the year year_to is multiplied in as well.
years_multiplied_inclusive(year_from, year_to) ==
    [k \in 1..(year_to - year_from + 1) |-> year_from + k - 1]

\* range(year_from, year_to)
years_multiplied(year_from, year_to) ==
    [k \in 1..(year_to - year_from) |-> year_from + k - 1]

\* Mutant: the rate of a year is taken to lead to that year, not from it.
years_divided_shifted(year_from, year_to) ==
    [k \in 1..(year_from - year_to) |-> year_to + k]

\* range(year_to, year_from)
years_divided(year_from, year_to) ==
    [k \in 1..(year_from - year_to) |-> year_to + k - 1]

\* The loop over the years: the cumulative rate, or the exception raised.
RECURSIVE cumulate(_, _, _, _)
cumulate(target_rates, years, dividing, cumulative_rate) ==
    IF years = <<>> THEN Returns(cumulative_rate)
    ELSE LET year == Head(years)
         IN  IF year \notin DOMAIN target_rates THEN Raises("KeyError")
             ELSE LET rate_for_year == target_rates[year]
                  IN  IF dividing /\ rate_for_year = 0 THEN Raises("ValueError")
                      ELSE cumulate(target_rates, Tail(years), dividing,
                               IF dividing
                               THEN <<cumulative_rate[1] * 10, cumulative_rate[2] * rate_for_year>>
                               ELSE <<cumulative_rate[1] * rate_for_year, cumulative_rate[2] * 10>>)

\* rates_dict.get(subject_code), and .get(format_type) of it when it is not
\* empty: the rates of the subject and format, or null.
specific_rates(rates_dict, subject_code, format_type) ==
    IF subject_code \notin DOMAIN rates_dict THEN None
    ELSE LET subject_specific_rates == rates_dict[subject_code]
         IN  IF DOMAIN subject_specific_rates = {} THEN None
             ELSE IF format_type \notin DOMAIN subject_specific_rates THEN None
             ELSE Some(subject_specific_rates[format_type])

calc_inflation_c(rates_dict, subject_code, format_type, year_from, year_to, default_rates) ==
    LET specific == specific_rates(rates_dict, subject_code, format_type)
        target_rates == IF IsNull(specific) THEN default_rates ELSE specific
    IN  IF IsNull(target_rates) THEN Raises("KeyError")
        ELSE IF year_from = year_to THEN Returns(10000)
        ELSE LET done == IF year_from < year_to
                         THEN cumulate(Val(target_rates), years_multiplied(year_from, year_to),
                                       FALSE, <<1, 1>>)
                         ELSE cumulate(Val(target_rates), years_divided(year_from, year_to),
                                       TRUE, <<1, 1>>)
             IN  IF Val(done).raised # None THEN done
                 ELSE Returns(Round(<<Val(done).value[1] * 10000, Val(done).value[2]>>))

MaxYears == 3
FirstYear == 2020
RateYears == FirstYear..(FirstYear + MaxYears - 1)
YearArgs == FirstYear..(FirstYear + MaxYears)

\* Tables {year: rate}: every year, one year missing, one year with a zero
\* rate, no year at all, and another table with every year.
rates_full == [year \in RateYears |-> 10 + (year - FirstYear + 1)]
rates_gap == [year \in RateYears \ {FirstYear + 1} |-> 10 + (year - FirstYear + 1)]
rates_zero == [year \in RateYears |-> IF year = FirstYear + 1 THEN 0 ELSE 10 + (year - FirstYear + 1)]
rates_empty == [year \in {} |-> 10]
rates_default == [year \in RateYears |-> 15 + (year - FirstYear)]

\* Dicts {subject: {format: {year: rate}}}.
RatesDictArgs ==
    { [subject \in {"RU-MOW", "RU-SPB"} |->
          IF subject = "RU-MOW"
          THEN [format \in {"BB", "MF"} |-> IF format = "BB" THEN rates_full ELSE rates_zero]
          ELSE [format \in {} |-> rates_empty]],
      [subject \in {"RU-MOW"} |->
          [format \in {"BB", "MF"} |-> IF format = "BB" THEN rates_gap ELSE rates_empty]],
      [subject \in {} |-> [format \in {} |-> rates_empty]] }

InflationCalls ==
    [fn : {"calc_inflation_c"}, rates_dict : RatesDictArgs, subject_code : {"RU-MOW", "RU-SPB"},
     format_type : {"BB", "MF", "CB"}, year_from : YearArgs, year_to : YearArgs,
     default_rates : {None, Some(rates_default), Some(rates_gap)}]

CallInflationC ==
    /\ call # None
    /\ Val(call).fn = "calc_inflation_c"
    /\ ret = None
    /\ ret' = calc_inflation_c(Val(call).rates_dict, Val(call).subject_code, Val(call).format_type,
                               Val(call).year_from, Val(call).year_to, Val(call).default_rates)
    /\ UNCHANGED <<analyzerVars, guardian, task, call>>

(***************************************************************************)
(* trinity/services/logics.py: Coefficient.calc_rental_c(date_from,        *)
(* date_to), n = 4.  A date is a calendar day [year, month, day] (a        *)
(* datetime at midnight); the coefficient is in units of 1e-4.             *)
(***************************************************************************)
isleap(year) == year % 4 = 0 /\ (year % 100 # 0 \/ year % 400 = 0)

\* calendar.monthrange(year, month)[1]
days_in_month(year, month) ==
    IF month = 2 THEN (IF isleap(year) THEN 29 ELSE 28)
    ELSE IF month \in {4, 6, 9, 11} THEN 30
    ELSE 31

\* date.toordinal(): the number of the day, 1 being 1 January of the year 1.
toordinal(date) ==
    LET y == date.year - 1
    IN  y * 365 + y \div 4 - y \div 100 + y \div 400
        + SumSeq([m \in 1..(date.month - 1) |-> days_in_month(date.year, m)])
        + date.day

\* Mutant: the day of date_to is not counted.
days_without_last(date_from, date_to) == toordinal(date_to) - toordinal(date_from)

\* (date_to - date_from).days + 1
days_rented(date_from, date_to) == toordinal(date_to) - toordinal(date_from) + 1

calc_rental_c(date_from, date_to) ==
    Round(<<days_rented(date_from, date_to) * 10000,
            days_in_month(date_from.year, date_from.month)>>)

\* The first, the middle and the last days of January, February and April
\* of a common and of a leap year.
DateArgs ==
    {date \in [year : {2023, 2024}, month : {1, 2, 4}, day : {1, 14, 15, 16, 28, 29, 30, 31}] :
        date.day <= days_in_month(date.year, date.month)}

RentalCalls == [fn : {"calc_rental_c"}, date_from : DateArgs, date_to : DateArgs]

CallRentalC ==
    /\ call # None
    /\ Val(call).fn = "calc_rental_c"
    /\ ret = None
    /\ ret' = Returns(calc_rental_c(Val(call).date_from, Val(call).date_to))
    /\ UNCHANGED <<analyzerVars, guardian, task, call>>

(***************************************************************************)
(* The functions called on their own: one call, then its result.           *)
(***************************************************************************)
InitCalls ==
    /\ NoAnalyzer
    /\ call \in {Some(c) : c \in DistanceCalls \cup BasePriceCalls \cup SharesCalls
                                 \cup FilterPanelCalls \cup InflationCalls
                                 \cup RentalCalls}
    /\ ret = None
    /\ guardian = None
    /\ task = None

NextCalls ==
    \/ CallDistanceC
    \/ CallBasePrice
    \/ CallShares
    \/ CallFilterPanel
    \/ CallInflationC
    \/ CallRentalC

Calls == InitCalls /\ [][NextCalls]_vars

(***************************************************************************)
(* Properties of the functions called on their own (specification Calls).  *)
(***************************************************************************)
Called(fn) == call # None /\ Val(call).fn = fn /\ ret # None

HasReturned == Val(ret).raised = None

ReturnedValue(value) == HasReturned /\ Val(ret).value = value

RaisedError(exception) == Val(ret).raised = Some(exception)

\* C15: the distance coefficient is in [0, 1] for all inputs, is 1.0
\* whenever the radius is at most 0.1 km, and for a fixed radius above 0.1 km
\* does not increase when the distance grows; the same holds of the weight
\* that Analyzer._calc_weights derives by the same formula.
C15_DistanceCoefficient ==
    Called("calc_distance_c") =>
        LET distance == Val(call).distance
            radius == Val(call).radius
            c == Val(ret).value.c
            weight == Val(ret).value.weight
        IN  /\ 0 <= c /\ c <= 1000
            /\ 0 <= weight /\ weight <= 1000
            /\ radius <= 100 => c = 1000 /\ weight = 1000
            /\ radius > 100 =>
                   \A further \in {d \in DistanceArgs : d >= distance} :
                       /\ calc_distance_c(further, radius) <= c
                       /\ Weight(further, radius) <= weight

\* C16 as stated: the aggregate price of an empty panel is 0.0 for each of
\* the four methods, and that of a panel with exactly one candidate is the
\* candidate's base_price for each of the four methods.
C16_AsStated ==
    (Called("calc_base_price") /\ Val(call).method \in SMethods) =>
        LET constructions == Val(call).constructions
        IN  /\ Len(constructions) = 0 => ReturnedValue(0)
            /\ Len(constructions) = 1 => ReturnedValue(constructions[1].base_price)

\* C16: the aggregate price of an empty panel is 0.0 for each of the four
\* methods; that of a panel with exactly one candidate is, for each method,
\* the candidate's base_price rounded to a whole number of roubles (a whole
\* number at most half a rouble away: the price itself when it is whole),
\* except that weighted_mean raises ZeroDivisionError when the weight of the
\* candidate is 0.
C16_AggregatePrice ==
    (Called("calc_base_price") /\ Val(call).method \in SMethods) =>
        LET constructions == Val(call).constructions
        IN  /\ Len(constructions) = 0 => ReturnedValue(0)
            /\ Len(constructions) = 1 =>
                   IF Val(call).method = SMethod.weighted_mean /\ constructions[1].weight = 0
                   THEN RaisedError("ZeroDivisionError")
                   ELSE /\ HasReturned
                        /\ Val(ret).value % 2 = 0
                        /\ Abs(Val(ret).value - constructions[1].base_price) <= 1

\* A panel of one candidate that costs 100.5 roubles: every method returns
\* 100.0.
C16_Witness ==
    /\ Called("calc_base_price")
    /\ Val(call).method = SMethod.median
    /\ Len(Val(call).constructions) = 1
    /\ Val(call).constructions[1].base_price = 201
    /\ ReturnedValue(200)

RECURSIVE SumOver(_, _)
SumOver(f, S) ==
    IF S = {} THEN 0
    ELSE LET x == CHOOSE y \in S : TRUE
         IN  f[x] + SumOver(f, S \ {x})

\* C17: the shares over advertiser or operator, with or without top_n (the
\* folded bucket included), sum to 100 percent within the rounding of the
\* buckets (half of 0.01 percent each) whenever at least one candidate has a
\* non-null value, candidates with a null value being left out of the
\* denominator; with no non-null value there is no bucket.
C17_SharesSumTo100 ==
    Called("shares") =>
        LET constructions == Val(call).constructions
            shares == Val(ret).value
            non_null == {i \in 1..Len(constructions) :
                            \/ Val(call).attribute = "advertiser"
                            \/ ~IsNull(constructions[i].operator)}
        IN  IF non_null = {} THEN DOMAIN shares = {}
            ELSE 2 * Abs(SumOver(shares, DOMAIN shares) - 10000) <= Cardinality(DOMAIN shares)

\* C18: filter_panel scans the candidates in their order and drops a
\* candidate exactly when an already kept candidate has the same advertiser
\* and lies within 10 m of it: the result is a subsequence in the original
\* order, no two kept candidates share an advertiser within 10 m, every
\* dropped candidate has such a kept neighbour before it, and filtering the
\* result again changes nothing.
C18_FilterPanel ==
    Called("filter_panel") =>
        LET constructions == Val(call).constructions
            kept == Val(ret).value
            kept_ids == {kept[k].id : k \in 1..Len(kept)}
            near(i, j) == /\ constructions[i].advertiser = constructions[j].advertiser
                          /\ Abs(constructions[i].latitude - constructions[j].latitude) <= 10
        IN  /\ HasReturned
            /\ \A k \in 1..Len(kept) :
                   /\ kept[k].id \in 1..Len(constructions)
                   /\ kept[k] = constructions[kept[k].id]
            /\ \A k \in 1..(Len(kept) - 1) : kept[k].id < kept[k + 1].id
            /\ \A i \in 1..Len(constructions) :
                   i \in kept_ids <=> ~(\E j \in kept_ids : j < i /\ near(i, j))
            /\ \A i \in kept_ids : \A j \in kept_ids : i # j => ~near(i, j)
            /\ \A i \in (1..Len(constructions)) \ kept_ids : \E j \in kept_ids : near(i, j)
            /\ filter_panel(kept) = kept

\* Three candidates of one advertiser 10 m from one another: the second is
\* dropped for the first, and the third, 20 m from the first, is kept.
C18_Witness ==
    /\ Called("filter_panel")
    /\ Len(Val(call).constructions) = 3
    /\ \A i \in 1..3 : /\ Val(call).constructions[i].advertiser = "B"
                       /\ Val(call).constructions[i].latitude = 10 * (i - 1)
    /\ HasReturned
    /\ [k \in 1..Len(Val(ret).value) |-> Val(ret).value[k].id] = <<1, 3>>

RECURSIVE ProductOver(_, _)
ProductOver(f, S) ==
    IF S = {} THEN 1
    ELSE LET x == CHOOSE y \in S : TRUE
         IN  f[x] * ProductOver(f, S \ {x})

RECURSIVE Power(_, _)
Power(b, e) == IF e = 0 THEN 1 ELSE b * Power(b, e - 1)

\* The table that a call of calc_inflation_c is to read: the rates of
\* (subject, format) when present, the default table otherwise (null when
\* there is none).
TableInUse ==
    LET rates_dict == Val(call).rates_dict
        present == /\ Val(call).subject_code \in DOMAIN rates_dict
                   /\ Val(call).format_type \in DOMAIN rates_dict[Val(call).subject_code]
    IN  IF present THEN Some(rates_dict[Val(call).subject_code][Val(call).format_type])
        ELSE Val(call).default_rates

\* The years whose rates the call traverses.
YearsInUse ==
    IF Val(call).year_from < Val(call).year_to
    THEN Val(call).year_from..(Val(call).year_to - 1)
    ELSE Val(call).year_to..(Val(call).year_from - 1)

\* What the claim says of a call whose table is given and whose years
\* differ.
InflationOverYears ==
    LET table == Val(TableInUse)
        product == ProductOver(table, YearsInUse)
        one == Power(10, Cardinality(YearsInUse))
    IN  IF \E year \in YearsInUse : year \notin DOMAIN table
        THEN ~HasReturned
        ELSE IF Val(call).year_from < Val(call).year_to
        THEN ReturnedValue(Round(<<product * 10000, one>>))
        ELSE IF \E year \in YearsInUse : table[year] = 0
        THEN ~HasReturned
        ELSE ReturnedValue(Round(<<one * 10000, product>>))

\* C19 as stated: the coefficient is the product of the yearly rates of the
\* years year_from..year_to-1 when year_from < year_to, the reciprocal
\* product over year_to..year_from-1 when year_from > year_to, and 1.0 when
\* the years are equal; the rates are those of (subject, format) when
\* present and of the default table otherwise; a zero rate met while
\* dividing, or a year of the range missing from the table in use, is an
\* error.
C19_AsStated ==
    Called("calc_inflation_c") =>
        IF Val(call).year_from = Val(call).year_to THEN ReturnedValue(10000)
        ELSE IF IsNull(TableInUse) THEN ~HasReturned
        ELSE InflationOverYears

\* C19: as above (the coefficient rounded to 4 decimals), except that a call
\* with no rates of (subject, format) and no default table is an error
\* (KeyError) whatever the years, equal years included; with a table in use,
\* equal years give 1.0.
C19_InflationCoefficient ==
    Called("calc_inflation_c") =>
        IF IsNull(TableInUse) THEN RaisedError("KeyError")
        ELSE IF Val(call).year_from = Val(call).year_to THEN ReturnedValue(10000)
        ELSE InflationOverYears

\* Three years forward over the rates 1.1, 1.2, 1.3 of (RU-MOW, BB), a
\* default table with other rates being given: 1.716.
C19_Witness ==
    /\ Called("calc_inflation_c")
    /\ Val(call).subject_code = "RU-MOW"
    /\ Val(call).format_type = "BB"
    /\ TableInUse = Some(rates_full)
    /\ Val(call).default_rates = Some(rates_default)
    /\ Val(call).year_from = FirstYear
    /\ Val(call).year_to = FirstYear + 3
    /\ ReturnedValue(17160)

\* Two years backward over the default table, the subject having no rates.
C19_WitnessBackward ==
    /\ Called("calc_inflation_c")
    /\ Val(call).subject_code = "RU-SPB"
    /\ TableInUse = Some(rates_default)
    /\ Val(call).year_from = FirstYear + 2
    /\ Val(call).year_to = FirstYear
    /\ ReturnedValue(Round(<<100 * 10000, 15 * 16>>))

\* C20: for years y1 # y2 whose rates are all available and non-zero, the
\* coefficient from y1 to y2 times the coefficient from y2 to y1 is 1.0 up
\* to the rounding of the two coefficients to 4 decimals (each factor being
\* off by at most 0.00005, the product is off by at most 0.00005 times the
\* sum of the two): both directions traverse the same years.
C20_RoundTrip ==
    (/\ Called("calc_inflation_c")
     /\ Val(call).year_from # Val(call).year_to
     /\ ~IsNull(TableInUse)
     /\ \A year \in YearsInUse : year \in DOMAIN Val(TableInUse) /\ Val(TableInUse)[year] # 0) =>
        LET back == calc_inflation_c(Val(call).rates_dict, Val(call).subject_code,
                                     Val(call).format_type, Val(call).year_to,
                                     Val(call).year_from, Val(call).default_rates)
            there == Val(ret).value
            here == Val(back).value
        IN  /\ HasReturned
            /\ Val(back).raised = None
            /\ 2 * Abs(there * here - 100000000) <= there + here + 1

\* Two years forward and back over the rates 1.1 and 1.2: 1.32 and 0.7576.
C20_Witness ==
    /\ Called("calc_inflation_c")
    /\ TableInUse = Some(rates_full)
    /\ Val(call).year_from = FirstYear
    /\ Val(call).year_to = FirstYear + 2
    /\ ReturnedValue(13200)
    /\ calc_inflation_c(Val(call).rates_dict, Val(call).subject_code, Val(call).format_type,
                        Val(call).year_to, Val(call).year_from, Val(call).default_rates)
           = Returns(7576)

\* The calendar days from date_from to date_to, both included.
DaysFromTo(date_from, date_to) ==
    LET at_or_after(a, b) ==
            \/ a.year > b.year
            \/ a.year = b.year /\ a.month > b.month
            \/ a.year = b.year /\ a.month = b.month /\ a.day >= b.day
    IN  {date \in [year : {2023, 2024}, month : 1..12, day : 1..31] :
            /\ date.day <= (CASE date.month \in {1, 3, 5, 7, 8, 10, 12} -> 31
                              [] date.month \in {4, 6, 9, 11} -> 30
                              [] date.month = 2 /\ date.year = 2024 -> 29
                              [] OTHER -> 28)
            /\ at_or_after(date, date_from)
            /\ at_or_after(date_to, date)}

\* C21: for date_from not after date_to the rental coefficient is the
\* number of calendar days from date_from to date_to, both included, divided
\* by the number of days of date_from's month (to 4 decimals); it is 1.0 for
\* a range from the first to the last day of one month, be it of 28, 29, 30
\* or 31 days, and within 0.02 of 0.5 for a range within one month that
\* holds half of its days (to the nearest day).
C21_RentalCoefficient ==
    (Called("calc_rental_c") /\ DaysFromTo(Val(call).date_from, Val(call).date_to) # {}) =>
        LET date_from == Val(call).date_from
            date_to == Val(call).date_to
            days == Cardinality(DaysFromTo(date_from, date_to))
            month_days == Cardinality(DaysFromTo([date_from EXCEPT !.day = 1],
                                                 [date_from EXCEPT !.day = 31]))
            same_month == date_from.year = date_to.year /\ date_from.month = date_to.month
        IN  /\ ReturnedValue(Round(<<days * 10000, month_days>>))
            /\ (same_month /\ days = month_days) => ReturnedValue(10000)
            /\ (same_month /\ Abs(2 * days - month_days) <= 1) =>
                   Abs(Val(ret).value - 5000) <= 200

\* The whole of February of a common year, 28 days: 1.0.
C21_Witness ==
    /\ Called("calc_rental_c")
    /\ Val(call).date_from = [year |-> 2023, month |-> 2, day |-> 1]
    /\ Val(call).date_to = [year |-> 2023, month |-> 2, day |-> 28]
    /\ ReturnedValue(10000)

\* From 16 January to 31 January, 16 days of 31: 0.5161.
C21_WitnessHalf ==
    /\ Called("calc_rental_c")
    /\ Val(call).date_from = [year |-> 2023, month |-> 1, day |-> 16]
    /\ Val(call).date_to = [year |-> 2023, month |-> 1, day |-> 31]
    /\ ReturnedValue(5161)

(***************************************************************************)
(* core/ooh/guardian.py: Guardian.  An uploaded template is described by   *)
(* what the checks look at: the required columns it lacks, whether it has  *)
(* a column more than the schema, and for every row whether it is in       *)
(* order, has a value pydantic rejects ("bad_data") or passes pydantic and *)
(* fails a validator of the logic ("bad_logic").  `checked` lists the      *)
(* stages that have run and `validated` tells how validate() ended.        *)
(***************************************************************************)
RowKinds == {"ok", "bad_data", "bad_logic"}

RECURSIVE RowsOfLength(_)
RowsOfLength(n) ==
    IF n = 0 THEN {<<>>}
    ELSE {Append(rows, kind) : rows \in RowsOfLength(n - 1), kind \in RowKinds}

Templates ==
    [missing : {{}, {"format"}}, extra : BOOLEAN,
     rows : UNION {RowsOfLength(n) : n \in 0..MaxRows}]

Errors == [template |-> None, data |-> None, logic |-> None]

\* Guardian.__init__
Guardian(template) ==
    [template |-> template, df |-> None, errors |-> Errors,
     checked |-> <<>>, validated |-> "no"]

\* The rows (idx from 1) of the errors list of a stage.
errors_of(rows, kind) == {idx \in 1..Len(rows) : rows[idx] = kind}

\* Mutant: a failed stage records its error and the next stage runs.
validate_every_stage(self) ==
    LET template == self.template
        d_errors == errors_of(template.rows, "bad_data")
        l_errors == errors_of(template.rows, "bad_logic")
    IN  [self EXCEPT
            !.errors = [template |-> IF template.missing # {} THEN Some(template.missing)
                                     ELSE None,
                        data |-> IF d_errors # {} THEN Some(d_errors) ELSE None,
                        logic |-> IF l_errors # {} THEN Some(l_errors) ELSE None],
            !.df = IF template.missing = {} /\ d_errors = {} /\ l_errors = {}
                   THEN Some(template.rows) ELSE None,
            !.checked = <<"header", "data", "logic">>,
            !.validated = "returned"]

\* Guardian.validate.  _valid_data renames the columns by position
\* (df.columns = [...]), which polars refuses with a ShapeError when the
\* template has a column more than the schema: that exception is none of
\* the three that validate catches.
validate(self) ==
    LET template == self.template
        d_errors == errors_of(template.rows, "bad_data")
        l_errors == errors_of(template.rows, "bad_logic")
    IN  IF template.missing # {}
        THEN [self EXCEPT !.errors.template = Some(template.missing),
                          !.checked = <<"header">>, !.validated = "returned"]
        ELSE IF template.extra
        THEN [self EXCEPT !.checked = <<"header", "data">>, !.validated = "raised"]
        ELSE IF d_errors # {}
        THEN [self EXCEPT !.errors.data = Some(d_errors),
                          !.checked = <<"header", "data">>, !.validated = "returned"]
        ELSE IF l_errors # {}
        THEN [self EXCEPT !.errors.logic = Some(l_errors),
                          !.checked = <<"header", "data", "logic">>, !.validated = "returned"]
        ELSE [self EXCEPT !.df = Some(template.rows),
                          !.checked = <<"header", "data", "logic">>, !.validated = "returned"]

is_valid(self) == self.df # None

get_report(self) ==
    IF self.errors.template # None
    THEN Returns([stage |-> "header", errors |-> Val(self.errors.template)])
    ELSE IF self.errors.data # None
    THEN Returns([stage |-> "data", errors |-> Val(self.errors.data)])
    ELSE IF self.errors.logic # None
    THEN Returns([stage |-> "logic", errors |-> Val(self.errors.logic)])
    ELSE Raises("ValueError")

get_valid_df(self) ==
    IF self.df = None THEN Raises("ValueError") ELSE Returns(Val(self.df))

(***************************************************************************)
(* bot/dialogs/ooh/task.py: do_ooh_task and create_ooh_task.  `sent` lists *)
(* what the task has sent to the chat; `processed` and `db_loaded` tell    *)
(* whether the template has been processed and the database loaded.        *)
(***************************************************************************)
taskVars == <<guardian, task>>

\* Mutant: the task goes on whatever is_valid() says.
report_never_needed(self) == FALSE

report_needed(self) == ~is_valid(self)

\* The file is downloaded and read (lines 64-69); a workbook without the
\* sheet or the table raises KeyError.
LoadTemplate ==
    /\ task # None
    /\ Val(task).pc = "load"
    /\ \/ \E template \in Templates :
             task' = Some([Val(task) EXCEPT !.pc = "validate", !.template = Some(template)])
       \/ task' = Some([Val(task) EXCEPT !.pc = "raised"])
    /\ UNCHANGED <<analyzerVars, guardian, call, ret>>

\* Lines 71-73.
Validate ==
    /\ task # None
    /\ Val(task).pc = "validate"
    /\ LET validated == validate(Guardian(Val(Val(task).template)))
       IN  /\ guardian' = Some(validated)
           /\ task' = Some([Val(task) EXCEPT
                               !.pc = IF validated.validated = "raised" THEN "raised"
                                      ELSE "check"])
    /\ UNCHANGED <<analyzerVars, call, ret>>

\* Lines 75-82: the report of the errors is sent and the task returns.
ReportErrors ==
    /\ task # None
    /\ Val(task).pc = "check"
    /\ report_needed(Val(guardian))
    /\ LET report == get_report(Val(guardian))
       IN  task' = IF Val(report).raised # None
                   THEN Some([Val(task) EXCEPT !.pc = "raised"])
                   ELSE Some([Val(task) EXCEPT
                                 !.pc = "returned",
                                 !.sent = Append(@, [document |-> "errors.xlsx",
                                                     content |-> Val(report).value])])
    /\ UNCHANGED <<analyzerVars, guardian, call, ret>>

\* Lines 84-86.
ProcessTemplate ==
    /\ task # None
    /\ Val(task).pc = "check"
    /\ ~report_needed(Val(guardian))
    /\ LET template == get_valid_df(Val(guardian))
       IN  task' = IF Val(template).raised # None
                   THEN Some([Val(task) EXCEPT !.pc = "raised"])
                   ELSE Some([Val(task) EXCEPT !.pc = "database", !.processed = TRUE,
                                               !.rows = Len(Val(template).value)])
    /\ UNCHANGED <<analyzerVars, guardian, call, ret>>

\* Lines 88-104.
LoadDatabase ==
    /\ task # None
    /\ Val(task).pc = "database"
    /\ task' = Some([Val(task) EXCEPT !.pc = "create", !.db_loaded = TRUE])
    /\ UNCHANGED <<analyzerVars, guardian, call, ret>>

\* Lines 108 and 125: Analyzer(df, db, ooh_settings), df being the processed
\* template, row for row.
CreateOOHTask ==
    /\ task # None
    /\ Val(task).pc = "create"
    /\ task' = Some([Val(task) EXCEPT !.pc = "execute"])
    /\ df' \in {programme \in Programmes(MaxRows, 1) : Len(programme) = Val(task).rows}
    /\ db' \in Pools
    /\ db0' = db'
    /\ c_method' \in {CMethod.default, CMethod.operator_plus}
    /\ pc' = "execute"
    /\ UNCHANGED <<s_method, row_i, base_db_dist, lvl, db_lvl_filtered, rad_i, panels, visits,
                   accepted, result, resultCols, error, guardian, call, ret>>

\* Lines 107-111 and 126-129: execute has returned and the report is
\* created, or it has raised and the failure is told to the chat.
FinishOOHTask ==
    /\ task # None
    /\ Val(task).pc = "execute"
    /\ pc \in {"done", "error"}
    /\ task' = IF pc = "done"
               THEN Some([Val(task) EXCEPT !.pc = "send"])
               ELSE Some([Val(task) EXCEPT !.pc = "returned",
                                           !.sent = Append(@, [message |-> "task failed"])])
    /\ UNCHANGED <<analyzerVars, guardian, call, ret>>

\* Lines 113-120: the result is sent, or the failure to send it is told.
SendResult ==
    /\ task # None
    /\ Val(task).pc = "send"
    /\ \/ task' = Some([Val(task) EXCEPT !.pc = "returned",
                                         !.sent = Append(@, [document |-> "result.xlsx"])])
       \/ task' = Some([Val(task) EXCEPT !.pc = "returned",
                                         !.sent = Append(@, [message |-> "file not sent"])])
    /\ UNCHANGED <<analyzerVars, guardian, call, ret>>

InitTask ==
    /\ NoAnalyzer
    /\ call = None
    /\ ret = None
    /\ guardian = None
    /\ task = Some([pc |-> "load", template |-> None, rows |-> 0, processed |-> FALSE,
                    db_loaded |-> FALSE, sent |-> <<>>])

NextTask ==
    \/ LoadTemplate
    \/ Validate
    \/ ReportErrors
    \/ ProcessTemplate
    \/ LoadDatabase
    \/ CreateOOHTask
    \/ Next
    \/ FinishOOHTask
    \/ SendResult

Task == InitTask /\ [][NextTask]_vars

(***************************************************************************)
(* Properties of the task and of the Guardian (specification Task).        *)
(***************************************************************************)
\* An error of the header, the data or the logic has been recorded.
ErrorRecorded(self) ==
    \/ self.errors.template # None
    \/ self.errors.data # None
    \/ self.errors.logic # None

\* The Analyzer has been constructed.
AnalyzerExists == pc # "call"

\* The template is in order: no column is missing and no row is bad.
InOrder(template) ==
    /\ template.missing = {}
    /\ \A idx \in 1..Len(template.rows) : template.rows[idx] = "ok"

\* C22: in the task the engine only ever gets validated input: the Analyzer
\* exists only after Guardian.validate has succeeded on the uploaded
\* template (which is then in order, processed, and has as many rows as the
\* engine gets); and when the validation of the header, the data or the
\* logic has failed, the template is never processed, the database never
\* loaded and the engine never run, and the task ends having sent the report
\* of the errors and nothing else.
C22_EngineGetsValidatedInput ==
    task # None =>
        /\ AnalyzerExists =>
              /\ guardian # None
              /\ is_valid(Val(guardian))
              /\ ~ErrorRecorded(Val(guardian))
              /\ InOrder(Val(guardian).template)
              /\ Val(task).processed
              /\ Len(df) = Len(Val(guardian).template.rows)
        /\ (guardian # None /\ ErrorRecorded(Val(guardian))) =>
              /\ ~AnalyzerExists
              /\ ~Val(task).processed
              /\ ~Val(task).db_loaded
              /\ Val(task).pc \in {"check", "returned"}
              /\ Val(task).pc = "returned" =>
                    /\ Len(Val(task).sent) = 1
                    /\ Val(task).sent[1].document = "errors.xlsx"
                    /\ Val(task).sent[1].content = Val(get_report(Val(guardian))).value
              /\ Val(task).pc = "check" => Val(task).sent = <<>>

\* The engine has run on a validated template of two rows and the result
\* has been sent.
C22_Witness ==
    /\ task # None
    /\ Val(task).pc = "returned"
    /\ pc = "done"
    /\ Len(df) = 2
    /\ panels[1] # <<>>
    /\ is_valid(Val(guardian))
    /\ Val(task).sent = <<[document |-> "result.xlsx"]>>

\* A template whose second row fails the logic has been reported and the
\* task has returned.
C22_WitnessReported ==
    /\ task # None
    /\ Val(task).pc = "returned"
    /\ Val(guardian).errors.logic = Some({2})
    /\ Len(Val(task).sent) = 1

\* The first stage that fails on a template ("none" when none does).
FirstFailing(template) ==
    IF template.missing # {} THEN "header"
    ELSE IF \E idx \in 1..Len(template.rows) : template.rows[idx] = "bad_data" THEN "data"
    ELSE IF \E idx \in 1..Len(template.rows) : template.rows[idx] = "bad_logic" THEN "logic"
    ELSE "none"

RadiiTried(i, l) ==
    LET at_level == SelectSeq(visits[i], LAMBDA v : v[1] = l)
    IN  [a \in 1..Len(at_level) |-> at_level[a][2]]

\* The search of row i has left level l without accepting a panel there.
LevelLeft(i, l) ==
    IF i \in Returned THEN accepted[i].lvl # Some(l) ELSE lvl > l

\* 0.0, 0.5, ..., 5.0 km.
HalfKilometres == [k \in 1..11 |-> 500 * (k - 1)]

\* C23: the radius sequence is exactly 0.0, 0.5, ..., 5.0 km (11 values,
\* ascending, 0.0 first, 5.0 last); at every level the radii tried for a
\* non-MF row are the first values of that sequence in its order, all 11 of
\* them for a level that was tried and not accepted; a row with a sufficient
\* candidate set at 5.0 km is accepted; no member of a non-MF panel is
\* farther than 5.0 km from its row.
C23_RadiusSequence ==
    /\ RAD_RANGE = HalfKilometres
    /\ \A i \in 1..Len(visits) :
          ~IsMF(df[i]) =>
              /\ \A l \in 0..2 :
                    /\ Len(RadiiTried(i, l)) <= 11
                    /\ RadiiTried(i, l) = SubSeq(HalfKilometres, 1, Len(RadiiTried(i, l)))
                    /\ (RadiiTried(i, l) # <<>> /\ LevelLeft(i, l)) =>
                          RadiiTried(i, l) = HalfKilometres
              /\ i \in Returned =>
                    /\ (\E l \in 0..2 : Sufficient(df[i], l, RADIUS_MAX_DEFAULT)) =>
                          accepted[i].lvl # None
                    /\ accepted[i].radius # None =>
                          Val(accepted[i].radius) \in Range(HalfKilometres)
                    /\ \A k \in 1..Len(panels[i]) :
                          Abs(panels[i][k].latitude - df[i].latitude) <= RADIUS_MAX_DEFAULT

\* A panel accepted at 5.0 km after the ten smaller radii were tried and
\* were insufficient, with a member exactly 5.0 km away.
C23_Witness ==
    \E i \in Returned :
        /\ ~IsMF(df[i])
        /\ accepted[i].radius = Some(RADIUS_MAX_DEFAULT)
        /\ RadiiTried(i, Val(accepted[i].lvl)) = HalfKilometres
        /\ ~Sufficient(df[i], Val(accepted[i].lvl), RADIUS_MAX_DEFAULT - RADIUS_STEP_DEFAULT)
        /\ \E k \in 1..Len(panels[i]) :
              Abs(panels[i][k].latitude - df[i].latitude) = RADIUS_MAX_DEFAULT

(***************************************************************************)
(* The members of an accepted non-MF panel.                                *)
(***************************************************************************)
\* The ids of the rows of the pool that qualify for the row at level l and
\* radius: rows of the subject (under operator_plus) that pass the digital,
\* size and operator filters of the level, lie within the radius and have a
\* price within 50% of the price of the row.
Qualifying(row, l, radius) ==
    {db[q].id : q \in {q \in 1..Len(db) : Matches(db[q], row, l, radius)}}

MemberIds(panel) == {panel[k].id : k \in 1..Len(panel)}

\* C24: a non-MF panel accepted at level 1 or 2 and radius r has exactly the
\* qualifying rows of the pool as its members, each once and in the order of
\* the pool, whatever their weights and however close to each other they
\* are; a panel accepted at level 0 is what the proximity dedup leaves of
\* the qualifying rows.
C24_PanelMembers ==
    \A i \in Returned :
        (~IsMF(df[i]) /\ accepted[i].lvl # None) =>
            LET L == Val(accepted[i].lvl)
                R == Val(accepted[i].radius)
            IN  /\ MemberIds(panels[i]) \subseteq Qualifying(df[i], L, R)
                /\ \A a, b \in 1..Len(panels[i]) : a < b => panels[i][a].id < panels[i][b].id
                /\ IF L \in {1, 2}
                   THEN /\ MemberIds(panels[i]) = Qualifying(df[i], L, R)
                        /\ Len(panels[i]) = Cardinality(Qualifying(df[i], L, R))
                   ELSE /\ Ids(panels[i]) = Ids(filter_panel(MatchSet(df[i], 0, R)))
                        /\ \A id \in Qualifying(df[i], 0, R) \ MemberIds(panels[i]) :
                              \E k \in 1..Len(panels[i]) :
                                  /\ panels[i][k].id < id
                                  /\ panels[i][k].advertiser = db0[id].advertiser
                                  /\ Abs(panels[i][k].latitude - db0[id].latitude) <= 10

\* A panel accepted at level 1 or 2 whose members are closer to each other
\* than 10 m and of one advertiser, next to one accepted at level 2 with
\* members of weight exp(-1), next to one accepted at level 0 of which the
\* dedup has removed qualifying rows.
C24_Witness ==
    \E i, j, k \in Returned :
        /\ accepted[i].lvl \in {Some(1), Some(2)}
        /\ Len(filter_panel(panels[i])) < Len(panels[i])
        /\ accepted[j].lvl = Some(2)
        /\ \E m \in 1..Len(panels[j]) : 2 * panels[j][m].weight < 1000
        /\ accepted[k].lvl = Some(0)
        /\ MemberIds(panels[k]) # Qualifying(df[k], 0, Val(accepted[k].radius))

(***************************************************************************)
(* The size filter on both paths.                                          *)
(***************************************************************************)
HasBothDimensions(row) == row.width # None /\ row.height # None

HasNoSize(row) == row.width = None /\ row.height = None

HasOneDimension(row) == ~HasBothDimensions(row) /\ ~HasNoSize(row)

\* A known dimension of a reference row within 15% of the row's dimension.
Within15(dimension, of_row) ==
    /\ dimension # None
    /\ 100 * Abs(Val(dimension) - Val(of_row)) <= 15 * Val(of_row)

SizeFits(r, row) ==
    IF HasBothDimensions(row)
    THEN Within15(r.width, row.width) /\ Within15(r.height, row.height)
    ELSE HasNoSize(row)

\* What the non-MF path asks of a reference row apart from its size.
FitsButSize(r, row, l, radius) ==
    /\ InSubject(r, row)
    /\ r.is_digital = row.is_digital
    /\ OperatorMatches(r, row, l)
    /\ Abs(r.latitude - row.latitude) <= radius
    /\ PriceMatches(r, row)

\* What the MF path asks of a reference row apart from its size.
FitsButSizeMF(r, row) ==
    /\ r.format = "MF"
    /\ Abs(r.latitude - row.latitude) <= RADIUS_MAX_MF
    /\ PriceMatches(r, row)
    /\ r.is_digital = row.is_digital

\* C25: on the MF and on the non-MF path, among the reference rows that meet
\* every other condition of the panel, a row with both dimensions admits
\* exactly the reference rows whose two dimensions are known and each within
\* 15% of the row's own dimension, a row without a size admits every
\* reference row, and a row with exactly one dimension admits none (its
\* panel is empty).
C25_SizeFilter ==
    \A i \in Returned :
        /\ \A k \in 1..Len(panels[i]) : SizeFits(db0[panels[i][k].id], df[i])
        /\ HasOneDimension(df[i]) => panels[i] = <<>>
        /\ IsMF(df[i]) =>
              \A q \in 1..Len(db) :
                  FitsButSizeMF(db[q], df[i]) =>
                      (db[q].id \in MemberIds(panels[i]) <=> SizeFits(db[q], df[i]))
        /\ (~IsMF(df[i]) /\ accepted[i].lvl # None) =>
              LET L == Val(accepted[i].lvl)
                  R == Val(accepted[i].radius)
                  fitting == SelectSeq(db, LAMBDA r : FitsButSize(r, df[i], L, R)
                                                      /\ SizeFits(r, df[i]))
              IN  Ids(panels[i]) = Ids(IF L = 0 THEN filter_panel(fitting) ELSE fitting)
        /\ (~IsMF(df[i]) /\ accepted[i].lvl = None /\ JustReturned(i)) =>
              \A l \in 0..2, r \in Radii :
                  LET fitting == SelectSeq(db, LAMBDA x : FitsButSize(x, df[i], l, r)
                                                          /\ SizeFits(x, df[i]))
                  IN  Len(IF l = 0 THEN filter_panel(fitting) ELSE fitting) < Required(l)

\* The non-MF path: a row with both dimensions whose panel lacks a reference
\* row of unknown width that meets every other condition, and a row without
\* a size whose panel has that reference row.
C25_Witness ==
    \E i, j \in Returned :
        /\ ~IsMF(df[i]) /\ HasBothDimensions(df[i]) /\ accepted[i].lvl # None
        /\ \E q \in 1..Len(db) :
              /\ db[q].width = None
              /\ FitsButSize(db[q], df[i], Val(accepted[i].lvl), Val(accepted[i].radius))
              /\ db[q].id \notin MemberIds(panels[i])
        /\ ~IsMF(df[j]) /\ HasNoSize(df[j])
        /\ \E k \in 1..Len(panels[j]) : db0[panels[j][k].id].width = None

\* The MF path: the same for two MF rows.
C25_WitnessMF ==
    \E i, j \in Returned :
        /\ IsMF(df[i]) /\ HasBothDimensions(df[i]) /\ panels[i] # <<>>
        /\ \E q \in 1..Len(db) :
              /\ db[q].width = None
              /\ FitsButSizeMF(db[q], df[i])
              /\ db[q].id \notin MemberIds(panels[i])
        /\ IsMF(df[j]) /\ HasNoSize(df[j])
        /\ \E k \in 1..Len(panels[j]) : db0[panels[j][k].id].width = None

\* A reference row exactly 15% wider than its row is a member of the panel.
C25_WitnessBoundary ==
    \E i \in Returned :
        /\ HasBothDimensions(df[i])
        /\ \E k \in 1..Len(panels[i]) :
              100 * Val(panels[i][k].width) = 115 * Val(df[i].width)

\* A reference row 20% wider than its row that meets every other condition
\* is not a member.
C25_WitnessTooWide ==
    \E i \in Returned :
        /\ ~IsMF(df[i]) /\ accepted[i].lvl # None
        /\ \E q \in 1..Len(db) :
              /\ db[q].width # None
              /\ ~SizeFits(db[q], df[i])
              /\ FitsButSize(db[q], df[i], Val(accepted[i].lvl), Val(accepted[i].radius))
              /\ db[q].id \notin MemberIds(panels[i])

\* A non-MF row with one dimension has an empty panel although twelve
\* reference rows meet every other condition.
C25_WitnessOneDimension ==
    \E i \in Returned :
        /\ ~IsMF(df[i])
        /\ HasOneDimension(df[i])
        /\ panels[i] = <<>>
        /\ Len(SelectSeq(db, LAMBDA r : FitsButSize(r, df[i], 2, 0))) >= 12

\* The same for an MF row.
C25_WitnessOneDimensionMF ==
    \E i \in Returned :
        /\ IsMF(df[i])
        /\ HasOneDimension(df[i])
        /\ panels[i] = <<>>
        /\ Len(SelectSeq(db, LAMBDA r : FitsButSizeMF(r, df[i]))) >= 12

(***************************************************************************)
(* Levels that do not differ.                                              *)
(***************************************************************************)
\* The operator filter has nothing to act on: the pricing method is
\* "default", or the subject of the row has no top operators.
NoOperatorFilter(row) == c_method = CMethod.default \/ TopOps(row) = {}

\* What the level filters of level l leave of the rows of the subject.
LevelCandidates(row, l) ==
    Ids(apply_lvl_fltrs(c_method, l, calc_dist(row.latitude, filter_subj(c_method, db, row)),
                        row))

\* The (level, radius) combinations of level l at which the search of row i
\* found too few candidates.
FailedAt(i, l) ==
    {visits[i][a][2] : a \in {a \in 1..Len(visits[i]) :
                                 /\ visits[i][a][1] = l
                                 /\ (i \in Returned => accepted[i] # AcceptedAt(l, visits[i][a][2]))}}

\* C27: under "default", and under "operator_plus" for a row whose subject
\* has no top operators, the level filters leave the same candidates at
\* levels 0, 1 and 2; level 2 tries the radii level 1 has tried and fails at
\* each as level 1 did, so no panel is accepted at level 2 and a non-empty
\* non-MF panel is accepted at level 0 or 1.
C27_LevelTwoRepeatsLevelOne ==
    \A i \in 1..Len(visits) :
        (~IsMF(df[i]) /\ NoOperatorFilter(df[i])) =>
            /\ JustReturned(i) =>
                  /\ LevelCandidates(df[i], 0) = LevelCandidates(df[i], 1)
                  /\ LevelCandidates(df[i], 1) = LevelCandidates(df[i], 2)
                  /\ \A r \in Radii : Ids(MatchSet(df[i], 1, r)) = Ids(MatchSet(df[i], 2, r))
            /\ RadiiTried(i, 2) # <<>> =>
                  /\ FailedAt(i, 1) = Radii
                  /\ Range(RadiiTried(i, 2)) = FailedAt(i, 2)
            /\ i \in Returned =>
                  /\ accepted[i].lvl # Some(2)
                  /\ panels[i] # <<>> => accepted[i].lvl \in {Some(0), Some(1)}
                  /\ (JustReturned(i) /\ FailedAt(i, 1) = Radii) =>
                        /\ FailedAt(i, 2) = Radii
                        /\ panels[i] = <<>>

\* Under "default": levels 1 and 2 have each failed at all 11 radii with
\* nine candidates, one fewer than required, at the largest.
C27_Witness ==
    /\ c_method = CMethod.default
    /\ \E i \in Returned :
          /\ ~IsMF(df[i])
          /\ FailedAt(i, 1) = Radii
          /\ FailedAt(i, 2) = Radii
          /\ CountAt(df[i], 2, RADIUS_MAX_DEFAULT) = REQUIRED_COUNT_DEFAULT - 1
          /\ panels[i] = <<>>

\* Under "operator_plus", for a row of a top operator in a subject that has
\* top operators, level 2 differs: a panel is accepted there.
C27_WitnessOtherwise ==
    \E i \in Returned :
        /\ ~IsMF(df[i])
        /\ ~NoOperatorFilter(df[i])
        /\ accepted[i].lvl = Some(2)

\* Under "operator_plus", a row of a subject without top operators for which
\* levels 1 and 2 have failed at all 11 radii on a candidate set that is not
\* empty.
C27_WitnessNoTopOperators ==
    /\ c_method = CMethod.operator_plus
    /\ \E i \in Returned :
          /\ ~IsMF(df[i])
          /\ TopOps(df[i]) = {}
          /\ FailedAt(i, 1) = Radii
          /\ FailedAt(i, 2) = Radii
          /\ LevelCandidates(df[i], 2) # <<>>

\* Under "operator_plus", a row of a subject without top operators with a
\* panel accepted at level 1 that holds a candidate of another operator.
C27_WitnessLevelOne ==
    /\ c_method = CMethod.operator_plus
    /\ \E i \in Returned :
          /\ ~IsMF(df[i])
          /\ TopOps(df[i]) = {}
          /\ accepted[i].lvl = Some(1)
          /\ \E k \in 1..Len(panels[i]) : panels[i][k].operator # df[i].operator

(***************************************************************************)
(* The candidates grow with the radius.                                    *)
(***************************************************************************)
\* The rows that _filter_dist_price keeps of the rows of the current level
\* at a radius, for the row that is being searched.
CandidatesAt(radius) ==
    filter_dist_price(db_lvl_filtered, radius,
                      BASE_PRICE_TOLERANCE * Abs(df[row_i].base_price), df[row_i].base_price)

\* The search of a row enters a level: the first radius is about to be tried.
EntersLevel == pc = "radius" /\ rad_i = 1

\* The radii of the sequence at which at least 10 rows qualify at level l.
TenQualifyAt(row, l) ==
    {r \in Radii : Cardinality(Qualifying(row, l, r)) >= REQUIRED_COUNT_DEFAULT}

\* C28: for a row and a level, the rows that pass the distance and price
\* filter at a radius pass it at every larger radius of the sequence; at
\* levels 1 and 2 the panel is no smaller at the next radius, and the radius
\* of an accepted panel is the smallest of the sequence at which at least 10
\* rows qualify (when there is none at levels 1 and 2, no panel is accepted
\* there).
C28_MonotoneInRadius ==
    /\ EntersLevel =>
          \A a, b \in 1..Len(RAD_RANGE) :
              a < b =>
                  /\ Range(Ids(CandidatesAt(RAD_RANGE[a])))
                        \subseteq Range(Ids(CandidatesAt(RAD_RANGE[b])))
                  /\ (lvl \in {1, 2} /\ b = a + 1) =>
                        Len(panel_at(lvl, db_lvl_filtered, RAD_RANGE[a], df[row_i]))
                            <= Len(panel_at(lvl, db_lvl_filtered, RAD_RANGE[b], df[row_i]))
    /\ \A i \in Returned :
          (~IsMF(df[i]) /\ JustReturned(i)) =>
              /\ \A l \in {1, 2} :
                    accepted[i].lvl = Some(l) =>
                        /\ Val(accepted[i].radius) \in TenQualifyAt(df[i], l)
                        /\ \A r \in TenQualifyAt(df[i], l) : Val(accepted[i].radius) <= r
                        /\ Len(panels[i]) >= REQUIRED_COUNT_DEFAULT
              /\ accepted[i].lvl \notin {Some(0), Some(1)} =>
                    /\ TenQualifyAt(df[i], 1) = {}
                    /\ accepted[i].lvl = None => TenQualifyAt(df[i], 2) = {}

\* A panel accepted at level 1 or 2 at a radius above 0.0: at 0.0 some rows
\* qualify but fewer than 10, at the accepted radius more do.
C28_Witness ==
    \E i \in Returned :
        /\ ~IsMF(df[i])
        /\ accepted[i].lvl \in {Some(1), Some(2)}
        /\ Val(accepted[i].radius) > 0
        /\ Qualifying(df[i], Val(accepted[i].lvl), 0) # {}
        /\ Qualifying(df[i], Val(accepted[i].lvl), 0)
              # Qualifying(df[i], Val(accepted[i].lvl), Val(accepted[i].radius))
        /\ Len(panels[i]) > REQUIRED_COUNT_DEFAULT

(***************************************************************************)
(* The weights of a panel.                                                 *)
(***************************************************************************)
\* exp(-1), in the unit of the weights.
WeightAtRim == ExpNeg(10)

\* Every member of the panel lies within the radius and has the weight that
\* _calc_weights gives it at that radius: 1 up to 0.1 km, and otherwise
\* positive and at least exp(-1).
WeighedAt(panel, radius) ==
    \A m \in 1..Len(panel) :
        /\ panel[m].distance <= radius
        /\ panel[m].weight = Weight(panel[m].distance, radius)
        /\ panel[m].weight > 0
        /\ IF radius <= RADIUS_MAX_MF
           THEN panel[m].weight = 1000
           ELSE panel[m].weight >= WeightAtRim

SumOfWeights(panel) == SumSeq([m \in 1..Len(panel) |-> panel[m].weight])

\* C29: every member of a panel, returned or built for a radius and then
\* rejected, is no farther from its row than the radius its weight was
\* computed at, so its weight is positive: 1 on the MF path and at radius
\* 0.0, and at least exp(-1) otherwise.  The weights of a non-empty panel
\* have a positive sum, and execute with weighted_mean does not raise.
C29_WeightsPositive ==
    /\ WeightAtRim > 0
    /\ \A i \in Returned :
          /\ IsMF(df[i]) => WeighedAt(panels[i], RADIUS_MAX_MF)
          /\ (~IsMF(df[i]) /\ accepted[i].radius # None) =>
                WeighedAt(panels[i], Val(accepted[i].radius))
          /\ panels[i] # <<>> =>
                /\ SumOfWeights(panels[i]) > 0
                /\ calc_weighted_mean_price(panels[i])[2] > 0
                /\ ~calc_base_price_raises(panels[i], SMethod.weighted_mean)
    /\ pc = "radius" =>
          LET panel == panel_at(lvl, db_lvl_filtered, RAD_RANGE[rad_i], df[row_i])
          IN  /\ WeighedAt(panel, RAD_RANGE[rad_i])
              /\ panel # <<>> => SumOfWeights(panel) > 0
    /\ s_method = Some(SMethod.weighted_mean) =>
          /\ error = None
          /\ result # None
          /\ \A i \in 1..Len(Val(result)) :
                panels[i] # <<>> => Val(result)[i].panel_base_price # None

\* execute with weighted_mean has returned a result for a panel accepted at
\* 4.5 km whose members all lie on the rim, with the weight exp(-1).
C29_Witness ==
    /\ s_method = Some(SMethod.weighted_mean)
    /\ result # None
    /\ \E i \in Returned :
          /\ accepted[i].radius = Some(4500)
          /\ \A m \in 1..Len(panels[i]) :
                /\ panels[i][m].distance = 4500
                /\ panels[i][m].weight = WeightAtRim
          /\ Val(result)[i].panel_base_price # None

\* Panels whose members all have the weight 1: one accepted at radius 0.0
\* and one of an MF row with rows 50 m away.
C29_WitnessOne ==
    \E i \in Returned :
        /\ panels[i] # <<>>
        /\ IF IsMF(df[i])
           THEN \E m \in 1..Len(panels[i]) : panels[i][m].distance = 50
           ELSE accepted[i].radius = Some(0)
        /\ \A m \in 1..Len(panels[i]) : panels[i][m].weight = 1000

(***************************************************************************)
(* The format of the reference rows.                                       *)
(***************************************************************************)
\* The pool with the format of every row replaced.
Reformatted(pool, format) == [k \in 1..Len(pool) |-> [pool[k] EXCEPT !.format = format]]

\* The pool with the formats MF and DG exchanged.
FormatsExchanged(pool) ==
    [k \in 1..Len(pool) |->
        [pool[k] EXCEPT !.format = IF @ = "MF" THEN "DG" ELSE IF @ = "DG" THEN "MF" ELSE @]]

\* The panel _create_panel_non_mf returns for the row on a pool: that of the
\* first combination, level by level and radius by radius, that passes
\* _check_panel_count.
SearchOn(pool, row) ==
    LET base_db == filter_subj(c_method, pool, row)
        dist == calc_dist(row.latitude, base_db)
        at(c) == LET filtered == apply_lvl_fltrs(c_method, c[1], dist, row)
                 IN  IF filtered = <<>> THEN <<>> ELSE panel_at(c[1], filtered, c[2], row)
        ok == {c \in Combinations : check_panel_count(at(c), c[1])}
    IN  IF base_db = <<>> \/ ok = {} THEN <<>>
        ELSE at(CHOOSE c \in ok : \A d \in ok : c = d \/ Before(c[1], c[2], d[1], d[2]))

OtherFormats == {"MF", "BB"}

\* C30: the panel of a non-MF row has the same members, by position in the
\* pool, whatever the formats of the rows of the pool are; every member of
\* the panel of an MF row has the format MF.
C30_FormatNotFiltered ==
    \A i \in Returned :
        /\ (~IsMF(df[i]) /\ JustReturned(i)) =>
              /\ Ids(SearchOn(FormatsExchanged(db), df[i])) = Ids(panels[i])
              /\ \A format \in OtherFormats :
                    Ids(SearchOn(Reformatted(db, format), df[i])) = Ids(panels[i])
        /\ IsMF(df[i]) =>
              \A m \in 1..Len(panels[i]) :
                  /\ panels[i][m].format = Formats.MF
                  /\ db0[panels[i][m].id].format = Formats.MF

\* The panel of a non-MF row with a member of the format MF and a member of
\* the row's own format.
C30_Witness ==
    \E i \in Returned :
        /\ ~IsMF(df[i])
        /\ JustReturned(i)
        /\ \E m \in 1..Len(panels[i]) : panels[i][m].format = Formats.MF
        /\ \E m \in 1..Len(panels[i]) : panels[i][m].format = df[i].format

\* The panel of a non-MF row whose members all have the format MF.
C30_WitnessAllMF ==
    \E i \in Returned :
        /\ ~IsMF(df[i])
        /\ panels[i] # <<>>
        /\ \A m \in 1..Len(panels[i]) : panels[i][m].format = Formats.MF

\* The panel of an MF row that lacks a reference row of another format which
\* is digital, next to the row and of its price and size.
C30_WitnessMF ==
    \E i \in Returned :
        /\ IsMF(df[i])
        /\ panels[i] # <<>>
        /\ \E q \in 1..Len(db) :
              /\ db[q].format # Formats.MF
              /\ db[q].is_digital = df[i].is_digital
              /\ db[q].latitude = df[i].latitude
              /\ PriceMatches(db[q], df[i])
              /\ SizeFits(db[q], df[i])

====
